---- MODULE Spec2Model ----
(***************************************************************************)
(* A model of the bore tunnel daemon: the tunnel Manager (running map,     *)
(* tunnel-to-host index, SSH client pool), the persisted State, the        *)
(* control request handlers of the Daemon, transport disconnects and the   *)
(* reconnection tasks driven by the network monitor.                       *)
(*                                                                         *)
(* Every Manager method that takes m.mu for its whole body is one atomic   *)
(* step.  StartGroup and StopGroup do not take the lock themselves: they   *)
(* are sequences of such steps and interleave with other requests.  The    *)
(* same holds for the handlers, which call the Manager, then State.Add /   *)
(* Remove, then State.Save as three separately locked steps.               *)
(*                                                                         *)
(* Spec is the serving daemon started without entries in its state file.   *)
(* SpecRun is the whole of Daemon.Run: the replay of a state file, serving *)
(* and shutdown.  SpecMonitor is the network monitor with the callers of   *)
(* WaitForNetwork.  SpecFair and SpecRunFair add the scheduling of the     *)
(* goroutines for the properties that say something happens eventually.    *)
(* SpecRecover is the daemon from the loss of the transport of a tunnel    *)
(* on.  SpecTunnel is one tunnel object with its goroutines, SpecClient    *)
(* one ssh.Client with its keepalive and health checks (SpecClientFair     *)
(* with the scheduling of a health check under way), SpecBackoff one       *)
(* Backoff, SpecValidate the validation of one tunnel entry.               *)
(***************************************************************************)
EXTENDS Integers, Sequences, FiniteSets, TLC

(***************************************************************************)
(* Bounds                                                                  *)
(***************************************************************************)
\* number of ssh.Client objects that may be alive (open or referenced) at once
MaxClients == 3
\* number of reconnection goroutines that may be alive for one tunnel name
MaxTasks == 2
\* number of external events: control requests received, keepalive failures
\* and changes of the network status; where the daemon starts over a state
\* file, the requests that left its entries are among them
MaxEvents == 3
\* number of connections one tunnel accepts
MaxConns == 2
\* number of calls of Stop on one tunnel object
MaxStops == 2
\* number of calls of Backoff.Next since the Backoff was made or reset
MaxCalls == 6
\* number of calls of Backoff.Reset on one Backoff
MaxResets == 1
\* number of statuses of a tunnel object that are remembered
TrailLen == 2
\* rand.Float64() takes the values k / RandSteps, k < RandSteps
RandSteps == 4

(***************************************************************************)
(* The configuration file (config.Load reads it afresh on every call; it   *)
(* is not validated on load, so two tunnels may declare one local port).   *)
(***************************************************************************)
Cfg ==
  [tunnels |-> [a |-> [port |-> 7777, kind |-> "local"],
                b |-> [port |-> 7777, kind |-> "remote"],
                c |-> [port |-> 8080, kind |-> "local"]],
   groups  |-> [g1 |-> <<"c", "b">>,
                g2 |-> <<"a", "b">>]]

Names == {"a", "b", "c"}
\* names a request may carry: the configured tunnels and one unknown name
ReqNames == Names \cup {"z"}
GroupNames == {"g1", "g2"}
ReqGroups == GroupNames \cup {"gz"}
Hosts == {"h1", "h2"}
\* the host field of a request may be empty
ReqHosts == Hosts \cup {""}
ClientIds == 1..MaxClients
Handlers == {"r1", "r2"}
HandlerIdx(r) == IF r = "r1" THEN 1 ELSE 2

GetTunnel(name) == Cfg.tunnels[name]
HasTunnel(name) == name \in DOMAIN Cfg.tunnels
GetTunnelsForGroup(g) == Cfg.groups[g]
HasGroup(g) == g \in DOMAIN Cfg.groups

(***************************************************************************)
(* Errors                                                                  *)
(***************************************************************************)
Nil == [kind |-> "nil", arg |-> ""]
Err(kind, arg) == [kind |-> kind, arg |-> arg]
\* fmt.Errorf("failed to start tunnel '%s': %w", name, err)
Wrap(name, e) == [kind |-> "group-start-failed", arg |-> name, cause |-> e]

(***************************************************************************)
(* Go maps                                                                 *)
(***************************************************************************)
Delete(f, k) == [x \in DOMAIN f \ {k} |-> f[x]]
Put(f, k, v) == [x \in DOMAIN f \cup {k} |-> IF x = k THEN v ELSE f[x]]
EmptyMap == [x \in {} |-> 0]
Range(f) == {f[x] : x \in DOMAIN f}

(***************************************************************************)
(* Tunnel objects (baseTunnel, LocalTunnel, RemoteTunnel)                  *)
(***************************************************************************)
\* trail keeps the last TrailLen statuses the object has had, the present
\* one last ("" where it has had fewer)
newBaseTunnel(cfgT, client) ==
  [port |-> cfgT.port, kind |-> cfgT.kind, status |-> "stopped",
   lastError |-> "", reconnectCount |-> 0, client |-> client,
   trail |-> [i \in 1..TrailLen |-> IF i = TrailLen THEN "stopped" ELSE ""]]

SetStatus(t, status, err) ==
  [t EXCEPT !.status = status,
            !.lastError = IF err # "" THEN err ELSE @,
            !.reconnectCount = IF status = "reconnecting" THEN @ + 1 ELSE @,
            !.trail = IF @[TrailLen] = status THEN @ ELSE Tail(Append(@, status))]

\* LocalTunnel.Start / RemoteTunnel.Start; listenOK is the outcome of the
\* net.Listen (local) or of the peer-side Listen (remote)
TunnelStart(t, listenOK) ==
  LET t1 == SetStatus(t, "connecting", "")
  IN IF listenOK THEN SetStatus(t1, "connected", "")
     ELSE SetStatus(t1, "error", "listen-failed")

\* LocalTunnel.Stop / RemoteTunnel.Stop: always returns nil
TunnelStop(t) == SetStatus(t, "stopped", "")

(***************************************************************************)
(* ssh.Client objects                                                      *)
(***************************************************************************)
\* Client.Close: stops the keepalive and drops the session
Close(cl, id) == [cl EXCEPT ![id].open = FALSE, ![id].ka = FALSE]

IsConnected(cl, id) == cl[id].open

\* ssh.NewClient + a successful Client.Connect: a new object, keepalive running
\* (0 when the bound on live client objects is exhausted; the actions
\* exclude that case)
NewClientId(cl) ==
  IF ClientIds \ DOMAIN cl = {} THEN 0
  ELSE CHOOSE i \in ClientIds \ DOMAIN cl : \A j \in ClientIds \ DOMAIN cl : i <= j
Connect(cl, id, hostName) == Put(cl, id, [host |-> hostName, open |-> TRUE, ka |-> TRUE])

(***************************************************************************)
(* Manager                                                                 *)
(***************************************************************************)
NewManager ==
  [tunnels |-> EmptyMap, tunnelHosts |-> EmptyMap,
   sshClients |-> EmptyMap, clients |-> EmptyMap]

\* The heap of ssh.Client objects after a step.  Client objects that can no
\* longer act or be observed are dropped: those that neither the pool nor a
\* tunnel refers to and whose keepalive goroutine has ended.  A client with
\* a running keepalive stays even when the Manager has lost every reference:
\* it can still call back.
Collect(M) ==
  LET live == {i \in DOMAIN M.clients :
                  \/ M.clients[i].ka
                  \/ i \in Range(M.sshClients)
                  \/ \E n \in DOMAIN M.tunnels : M.tunnels[n].client = i}
  IN [M EXCEPT !.clients = [i \in live |-> M.clients[i]]]

\* Variant: only tunnels in status connected count as holders of a port.
Conflicts_ConnectedOnly(tn, port) ==
  {n \in DOMAIN tn : tn[n].port = port /\ tn[n].status = "connected"}

\* the running tunnels the loop of checkPortConflict can hit
Conflicts(tn, port) == {n \in DOMAIN tn : tn[n].port = port}
\* the error names the incumbent the map iteration meets first (the choice
\* matters only if several tunnels held the port)
checkPortConflict(tn, port) ==
  IF Conflicts(tn, port) = {} THEN Nil
  ELSE Err("port-conflict", CHOOSE n \in Conflicts(tn, port) : TRUE)

\* Variant: every transport of the pool is closed and evicted.
cleanupUnusedClients_All(M) ==
  [M EXCEPT
     !.clients = [i \in DOMAIN M.clients |->
                    IF i \in Range(M.sshClients)
                    THEN [M.clients[i] EXCEPT !.open = FALSE, !.ka = FALSE]
                    ELSE M.clients[i]],
     !.sshClients = EmptyMap]

cleanupUnusedClients(M) ==
  LET usedHosts == Range(M.tunnelHosts)
      unused == {h \in DOMAIN M.sshClients : h \notin usedHosts}
  IN [M EXCEPT
        !.clients = [i \in DOMAIN M.clients |->
                       IF \E h \in unused : M.sshClients[h] = i
                       THEN [M.clients[i] EXCEPT !.open = FALSE, !.ka = FALSE]
                       ELSE M.clients[i]],
        !.sshClients = [h \in DOMAIN M.sshClients \ unused |-> M.sshClients[h]]]

\* returns the manager, the client and the error
getOrCreateSSHClient(M, hostName, connOK) ==
  LET exists == hostName \in DOMAIN M.sshClients
      M1 == IF exists
            THEN [M EXCEPT !.clients = Close(M.clients, M.sshClients[hostName]),
                           !.sshClients = Delete(M.sshClients, hostName)]
            ELSE M
      id == NewClientId(M1.clients)
  IN IF exists /\ IsConnected(M.clients, M.sshClients[hostName])
     THEN [m |-> M, client |-> M.sshClients[hostName], err |-> Nil]
     ELSE IF connOK
     THEN [m |-> [M1 EXCEPT !.clients = Connect(M1.clients, id, hostName),
                            !.sshClients = Put(M1.sshClients, hostName, id)],
           client |-> id, err |-> Nil]
     ELSE [m |-> M1, client |-> 0, err |-> Err("connect-failed", hostName)]

\* Variant: the disconnect of one host marks the tunnels of every host.
onSSHDisconnect_EveryHost(M, hostName) ==
  LET marked == [n \in DOMAIN M.tunnels |-> SetStatus(M.tunnels[n], "error", "ssh-lost")]
  IN IF hostName \in DOMAIN M.sshClients
     THEN [M EXCEPT !.tunnels = marked,
                    !.clients = Close(M.clients, M.sshClients[hostName]),
                    !.sshClients = Delete(M.sshClients, hostName)]
     ELSE [M EXCEPT !.tunnels = marked]

onSSHDisconnect(M, hostName) ==
  LET tn == [n \in DOMAIN M.tunnels |->
               IF M.tunnelHosts[n] = hostName
               THEN SetStatus(M.tunnels[n], "error", "ssh-lost")
               ELSE M.tunnels[n]]
  IN IF hostName \in DOMAIN M.sshClients
     THEN [M EXCEPT !.tunnels = tn,
                    !.clients = Close(M.clients, M.sshClients[hostName]),
                    !.sshClients = Delete(M.sshClients, hostName)]
     ELSE [M EXCEPT !.tunnels = tn]

\* Variant: the tunnel is stopped and removed, the pool is left as it is.
SwitchHost_NoCleanup(M, name) ==
  [M EXCEPT !.tunnels = Delete(M.tunnels, name),
            !.tunnelHosts = Delete(M.tunnelHosts, name)]

\* the part of StartTunnel that stops a tunnel running on another host
SwitchHost(M, name) ==
  cleanupUnusedClients([M EXCEPT !.tunnels = Delete(M.tunnels, name),
                                 !.tunnelHosts = Delete(M.tunnelHosts, name)])

\* Variant: the transport is obtained before the port check.
StartTunnel_ConnectFirst(M, name, host, connOK, listenOK) ==
  IF name \in DOMAIN M.tunnels /\ M.tunnelHosts[name] = host
  THEN [m |-> M, err |-> Nil]
  ELSE
    LET M1 == IF name \in DOMAIN M.tunnels
              THEN cleanupUnusedClients(
                     [M EXCEPT !.tunnels = Delete(M.tunnels, name),
                               !.tunnelHosts = Delete(M.tunnelHosts, name)])
              ELSE M
    IN IF ~HasTunnel(name)
       THEN [m |-> M1, err |-> Err("unknown-tunnel", name)]
       ELSE
         LET tunnelCfg == GetTunnel(name)
             got == getOrCreateSSHClient(M1, host, connOK)
             conflict == checkPortConflict(got.m.tunnels, tunnelCfg.port)
             tunnel == TunnelStart(newBaseTunnel(tunnelCfg, got.client), listenOK)
         IN IF got.err # Nil THEN [m |-> got.m, err |-> got.err]
            ELSE IF conflict # Nil THEN [m |-> got.m, err |-> conflict]
            ELSE IF tunnel.status # "connected"
            THEN [m |-> got.m, err |-> Err("listen-failed", name)]
            ELSE [m |-> [got.m EXCEPT !.tunnels = Put(got.m.tunnels, name, tunnel),
                                      !.tunnelHosts = Put(got.m.tunnelHosts, name, host)],
                  err |-> Nil]

StartTunnel(M, name, host, connOK, listenOK) ==
  IF name \in DOMAIN M.tunnels /\ M.tunnelHosts[name] = host
  THEN [m |-> M, err |-> Nil]
  ELSE
    LET M1 == IF name \in DOMAIN M.tunnels THEN SwitchHost(M, name) ELSE M
    IN IF ~HasTunnel(name)
       THEN [m |-> M1, err |-> Err("unknown-tunnel", name)]
       ELSE
         LET tunnelCfg == GetTunnel(name)
             conflict == checkPortConflict(M1.tunnels, tunnelCfg.port)
             got == getOrCreateSSHClient(M1, host, connOK)
             tunnel == TunnelStart(newBaseTunnel(tunnelCfg, got.client), listenOK)
         IN IF conflict # Nil THEN [m |-> M1, err |-> conflict]
            ELSE IF got.err # Nil THEN [m |-> got.m, err |-> got.err]
            ELSE IF tunnel.status # "connected"
            THEN [m |-> got.m, err |-> Err("listen-failed", name)]
            ELSE [m |-> [got.m EXCEPT !.tunnels = Put(got.m.tunnels, name, tunnel),
                                      !.tunnelHosts = Put(got.m.tunnelHosts, name, host)],
                  err |-> Nil]

\* Variant: the tunnel leaves the running map and stays in the host index.
StopTunnel_KeepHost(M, name) ==
  IF name \notin DOMAIN M.tunnels
  THEN [m |-> M, err |-> Err("not-running", name)]
  ELSE [m |-> cleanupUnusedClients([M EXCEPT !.tunnels = Delete(M.tunnels, name)]),
        err |-> Nil]

StopTunnel(M, name) ==
  IF name \notin DOMAIN M.tunnels
  THEN [m |-> M, err |-> Err("not-running", name)]
  ELSE [m |-> cleanupUnusedClients(
                [M EXCEPT !.tunnels = Delete(M.tunnels, name),
                          !.tunnelHosts = Delete(M.tunnelHosts, name)]),
        err |-> Nil]

\* Variant: a failed connection leaves the old tunnel as Stop left it.
ReconnectTunnel_LeaveStopped(M, name, connOK, listenOK) ==
  IF name \notin DOMAIN M.tunnels
  THEN [m |-> M, err |-> Err("not-found", name)]
  ELSE IF name \notin DOMAIN M.tunnelHosts
  THEN [m |-> M, err |-> Err("no-host", name)]
  ELSE
    LET host == M.tunnelHosts[name]
        old == TunnelStop(M.tunnels[name])
        M1 == [M EXCEPT !.tunnels[name] = old,
                        !.sshClients = Delete(M.sshClients, host)]
        got == getOrCreateSSHClient(M1, host, connOK)
        fresh == SetStatus(newBaseTunnel([port |-> old.port, kind |-> old.kind],
                                         got.client), "reconnecting", "")
        newTunnel == TunnelStart(fresh, listenOK)
    IN IF got.err # Nil
       THEN [m |-> got.m, err |-> got.err]
       ELSE [m |-> [got.m EXCEPT !.tunnels[name] = newTunnel],
             err |-> IF newTunnel.status = "connected" THEN Nil
                     ELSE Err("listen-failed", name)]

ReconnectTunnel(M, name, connOK, listenOK) ==
  IF name \notin DOMAIN M.tunnels
  THEN [m |-> M, err |-> Err("not-found", name)]
  ELSE IF name \notin DOMAIN M.tunnelHosts
  THEN [m |-> M, err |-> Err("no-host", name)]
  ELSE
    LET host == M.tunnelHosts[name]
        old == TunnelStop(M.tunnels[name])
        M1 == [M EXCEPT !.tunnels[name] = old,
                        !.sshClients = Delete(M.sshClients, host)]
        got == getOrCreateSSHClient(M1, host, connOK)
        fresh == SetStatus(newBaseTunnel([port |-> old.port, kind |-> old.kind],
                                         got.client), "reconnecting", "")
        newTunnel == TunnelStart(fresh, listenOK)
    IN IF got.err # Nil
       THEN [m |-> [got.m EXCEPT !.tunnels[name] =
                                    SetStatus(old, "error", "connect-failed")],
             err |-> got.err]
       ELSE [m |-> [got.m EXCEPT !.tunnels[name] = newTunnel],
             err |-> IF newTunnel.status = "connected" THEN Nil
                     ELSE Err("listen-failed", name)]

\* Variant: StopAll stops the tunnels and leaves the pool as it is.
StopAll_KeepPool(M) ==
  [m |-> [M EXCEPT !.tunnels = EmptyMap, !.tunnelHosts = EmptyMap], err |-> Nil]

\* Manager.StopAll: every tunnel is stopped and deleted from both maps, every
\* client of the pool is closed and deleted (Tunnel.Stop returns no error)
StopAll(M) ==
  LET pooled == Range(M.sshClients)
  IN [m |-> [M EXCEPT !.tunnels = EmptyMap,
                      !.tunnelHosts = EmptyMap,
                      !.sshClients = EmptyMap,
                      !.clients = [id \in DOMAIN M.clients |->
                                     IF id \in pooled
                                     THEN [M.clients[id] EXCEPT !.open = FALSE, !.ka = FALSE]
                                     ELSE M.clients[id]]],
      err |-> Nil]

\* One iteration of the loop of checkGroupPortConflicts, for the tunnel
\* called name; newPorts maps the ports of the group's tunnels seen so far
\* to their names.  Returns the error and the new newPorts.
checkGroupIter(tn, name, newPorts) ==
  IF name \in DOMAIN tn THEN [err |-> Nil, newPorts |-> newPorts]
  ELSE IF ~HasTunnel(name)
  THEN [err |-> Err("unknown-tunnel", name), newPorts |-> newPorts]
  ELSE IF checkPortConflict(tn, GetTunnel(name).port) # Nil
  THEN [err |-> checkPortConflict(tn, GetTunnel(name).port), newPorts |-> newPorts]
  ELSE IF GetTunnel(name).port \in DOMAIN newPorts
  THEN [err |-> Err("group-port-conflict", newPorts[GetTunnel(name).port]),
        newPorts |-> newPorts]
  ELSE [err |-> Nil, newPorts |-> Put(newPorts, GetTunnel(name).port, name)]

(***************************************************************************)
(* State (internal/state): the two lists and the file                      *)
(***************************************************************************)
NewState == [ActiveTunnels |-> <<>>, ActiveGroups |-> <<>>]

IndexOf(list, name) ==
  IF \E i \in 1..Len(list) : list[i].name = name
  THEN CHOOSE i \in 1..Len(list) :
         list[i].name = name /\ \A j \in 1..(i - 1) : list[j].name # name
  ELSE 0

\* Variant: an entry is appended whether or not the name is listed already.
AddEntry_Append(list, name, host) == Append(list, [name |-> name, host |-> host])

AddEntry(list, name, host) ==
  IF IndexOf(list, name) # 0
  THEN [list EXCEPT ![IndexOf(list, name)].host = host]
  ELSE Append(list, [name |-> name, host |-> host])

RemoveEntry(list, name) ==
  IF IndexOf(list, name) # 0
  THEN SubSeq(list, 1, IndexOf(list, name) - 1)
         \o SubSeq(list, IndexOf(list, name) + 1, Len(list))
  ELSE list

AddTunnel(st, name, host) == [st EXCEPT !.ActiveTunnels = AddEntry(@, name, host)]
RemoveTunnel(st, name) == [st EXCEPT !.ActiveTunnels = RemoveEntry(@, name)]
AddGroup(st, name, host) == [st EXCEPT !.ActiveGroups = AddEntry(@, name, host)]
RemoveGroup(st, name) == [st EXCEPT !.ActiveGroups = RemoveEntry(@, name)]

\* State.Save: the file receives both lists as they are at that moment
Save(st) == [active_tunnels |-> st.ActiveTunnels, active_groups |-> st.ActiveGroups]

\* State.Load: the lists of the file replace the lists of the state
Load(st, file) ==
  [st EXCEPT !.ActiveTunnels = file.active_tunnels, !.ActiveGroups = file.active_groups]

(***************************************************************************)
(* The running daemon                                                      *)
(***************************************************************************)
VARIABLES
  m,          \* the Manager: tunnels, tunnelHosts, sshClients, and the ssh.Client objects
  state,      \* Daemon.state, the in-memory State
  disk,       \* the content of state.json
  handlers,   \* one control connection each: where its handler stands
  netStatus,  \* Monitor.status
  tasks,      \* per tunnel name, the reconnection goroutines alive
  nev,        \* external events since the initial state
  run,        \* where the goroutine of Daemon.Run stands, and what it has left to replay
  mon,        \* Monitor.onChange, the callers of WaitForNetwork and the callback in flight
  tun,        \* one tunnel object with its accept loop, connection handlers and pumps
  bo,         \* one Backoff object and the duration its last Next returned
  vt,         \* one tunnel entry of a configuration and the errors validateTunnel gave
  cli         \* one ssh.Client object with its keepalive goroutine and the health checks on it

vars == <<m, state, disk, handlers, netStatus, tasks, nev, run, mon, tun, bo, vt, cli>>

\* the variables of the daemon proper
daemonVars == <<m, state, disk, handlers, netStatus, tasks, nev, run, mon>>

\* connections are interchangeable: a new one is served by the first free handler
FirstFree(r) == \A q \in Handlers : handlers[q].pc = "idle" => HandlerIdx(r) <= HandlerIdx(q)

Idle == [pc |-> "idle", typ |-> "", name |-> "", host |-> "",
         idx |-> 0, started |-> <<>>, newPorts |-> EmptyMap, err |-> Nil]

\* the handler has produced its response
Done(typ, name, host, err) ==
  [pc |-> "done", typ |-> typ, name |-> name, host |-> host,
   idx |-> 0, started |-> <<>>, newPorts |-> EmptyMap, err |-> err]

\* the goroutine of Daemon.Run shares the shape of a handler while it replays a group
Procs == Handlers \cup {"main"}

\* Daemon.Run waits in its select for a signal: restoreState is over
Serving == [pc |-> "serving", todo |-> <<>>, err |-> Nil]

\* the goroutines that call Monitor.WaitForNetwork
Waiters == {"w1", "w2"}

\* a goroutine that is not inside WaitForNetwork
Outside == [pc |-> "out", old |-> <<>>, ch |-> FALSE, seen |-> FALSE]

\* Monitor after NewMonitor, Start and SetOnChange(d.onNetworkChange).  onChange
\* lists the wrappers WaitForNetwork has put around d.onNetworkChange, the
\* outermost first; pending is the callback checkNetwork read under the lock
\* and has not called yet.
NewMonitor == [onChange |-> <<>>, pending |-> <<>>, waiters |-> [w \in Waiters |-> Outside]]

\* the connections one tunnel may have accepted
ConnIds == 1..MaxConns

\* a connection slot no connection has used
NoConn == [pc |-> "none", up |-> FALSE, down |-> FALSE]

\* NewLocalTunnel / NewRemoteTunnel: status stopped, no context, no listener,
\* no goroutine; stop is where the caller of Stop stands, stops counts the
\* calls, inMap tells whether the Manager has the tunnel in its running map,
\* resp is the response of tunnel_down
NewTunnel ==
  [status |-> "stopped", cancel |-> FALSE, ctxDone |-> FALSE, listener |-> "nil",
   accept |-> "none", conns |-> [c \in ConnIds |-> NoConn],
   stop |-> "out", stops |-> 0, caller |-> "", inMap |-> FALSE, resp |-> ""]

\* no Backoff object has been made
NoBackoff ==
  [initial |-> 0, max |-> 0, multiplier |-> 0, current |-> 0,
   op |-> "none", last |-> 0, calls |-> 0, resets |-> 0]

\* no ssh.Client object has been made: no session, not in the pool, no
\* keepalive goroutine, no health check under way, the disconnect callback
\* never called
NoClient ==
  [open |-> FALSE, pooled |-> FALSE, ka |-> "none",
   checks |-> [r \in Handlers |-> "none"], calls |-> 0, mu |-> {}]

\* no tunnel entry is under validation
NoTunnelEntry == [name |-> "", type |-> "", local_port |-> 0, remote_port |-> 0, errs |-> <<>>, done |-> FALSE]

Init ==
  /\ m = NewManager
  /\ state = NewState
  /\ disk = Save(NewState)
  /\ handlers = [r \in Procs |-> Idle]
  /\ netStatus = "unknown"
  /\ tasks = [n \in Names |-> 0]
  /\ nev = 0
  /\ run = Serving
  /\ mon = NewMonitor
  /\ tun = NewTunnel
  /\ bo = NoBackoff
  /\ vt = NoTunnelEntry
  /\ cli = NoClient

\* Variant: a request is passed on to the Manager whatever its host field.
HostMissing_Never(host) == FALSE

\* handleTunnelUp, handleGroupEnable: the test of req.Host
HostMissing(host) == host = ""

\* the bound on live client objects was not exceeded by the step
Fits(M) == 0 \notin DOMAIN M.clients

(***************************************************************************)
(* tunnel_up                                                               *)
(***************************************************************************)
\* Daemon.handleTunnelUp up to and including Manager.StartTunnel
handleTunnelUp(r, name, host, connOK, listenOK) ==
  /\ handlers[r].pc = "idle"
  /\ FirstFree(r)
  /\ nev < MaxEvents
  /\ nev' = nev + 1
  /\ IF HostMissing(host)
     THEN /\ handlers' = [handlers EXCEPT ![r] =
                            Done("tunnel_up", name, host, Err("host-required", ""))]
          /\ m' = m
     ELSE LET res == StartTunnel(m, name, host, connOK, listenOK)
          IN /\ Fits(res.m)
             /\ m' = Collect(res.m)
             /\ handlers' = [handlers EXCEPT ![r] =
                  IF res.err # Nil THEN Done("tunnel_up", name, host, res.err)
                  ELSE [Idle EXCEPT !.pc = "add", !.typ = "tunnel_up",
                                    !.name = name, !.host = host]]
  /\ UNCHANGED <<tun, bo, vt, cli, run, mon, state, disk, netStatus, tasks>>

\* d.state.AddTunnel / d.state.AddGroup of the two enabling handlers
stateAdd(r) ==
  /\ handlers[r].pc = "add"
  /\ state' = IF handlers[r].typ = "tunnel_up"
              THEN AddTunnel(state, handlers[r].name, handlers[r].host)
              ELSE AddGroup(state, handlers[r].name, handlers[r].host)
  /\ handlers' = [handlers EXCEPT ![r].pc = "save"]
  /\ UNCHANGED <<tun, bo, vt, cli, run, mon, m, disk, netStatus, tasks, nev>>

\* d.state.RemoveTunnel / d.state.RemoveGroup of the two disabling handlers
stateRemove(r) ==
  /\ handlers[r].pc = "remove"
  /\ state' = IF handlers[r].typ = "tunnel_down"
              THEN RemoveTunnel(state, handlers[r].name)
              ELSE RemoveGroup(state, handlers[r].name)
  /\ handlers' = [handlers EXCEPT ![r].pc = "save"]
  /\ UNCHANGED <<tun, bo, vt, cli, run, mon, m, disk, netStatus, tasks, nev>>

\* d.state.Save() and the success response that follows it
stateSave(r) ==
  /\ handlers[r].pc = "save"
  /\ disk' = Save(state)
  /\ handlers' = [handlers EXCEPT ![r] =
                    Done(handlers[r].typ, handlers[r].name, handlers[r].host, Nil)]
  /\ UNCHANGED <<tun, bo, vt, cli, run, mon, m, state, netStatus, tasks, nev>>

\* the connection is closed once the response is written
handleConnection(r) ==
  /\ handlers[r].pc = "done"
  /\ handlers' = [handlers EXCEPT ![r] = Idle]
  /\ UNCHANGED <<tun, bo, vt, cli, run, mon, m, state, disk, netStatus, tasks, nev>>

(***************************************************************************)
(* tunnel_down                                                             *)
(***************************************************************************)
handleTunnelDown(r, name) ==
  /\ handlers[r].pc = "idle"
  /\ FirstFree(r)
  /\ nev < MaxEvents
  /\ nev' = nev + 1
  /\ LET res == StopTunnel(m, name)
     IN /\ m' = Collect(res.m)
        /\ handlers' = [handlers EXCEPT ![r] =
             IF res.err # Nil THEN Done("tunnel_down", name, "", res.err)
             ELSE [Idle EXCEPT !.pc = "remove", !.typ = "tunnel_down", !.name = name]]
  /\ UNCHANGED <<tun, bo, vt, cli, run, mon, state, disk, netStatus, tasks>>

(***************************************************************************)
(* group_enable                                                            *)
(***************************************************************************)
\* One iteration of checkGroupPortConflicts on behalf of handler record h.
\* StartGroup calls it without m.mu, so the running map may change between
\* two iterations.
GroupCheckAt(r, h) ==
  LET tunnelNames == GetTunnelsForGroup(h.name)
      res == checkGroupIter(m.tunnels, tunnelNames[h.idx], h.newPorts)
  IN handlers' = [handlers EXCEPT ![r] =
       IF res.err # Nil THEN Done(h.typ, h.name, h.host, res.err)
       ELSE IF h.idx < Len(tunnelNames)
       THEN [h EXCEPT !.idx = h.idx + 1, !.newPorts = res.newPorts]
       ELSE [h EXCEPT !.pc = "gstart", !.idx = 1, !.newPorts = EmptyMap]]

\* Daemon.handleGroupEnable and Manager.StartGroup up to and including the
\* first iteration of checkGroupPortConflicts
handleGroupEnable(r, g, host) ==
  /\ handlers[r].pc = "idle"
  /\ FirstFree(r)
  /\ nev < MaxEvents
  /\ nev' = nev + 1
  /\ IF HostMissing(host)
     THEN handlers' = [handlers EXCEPT ![r] =
                         Done("group_enable", g, host, Err("host-required", ""))]
     ELSE IF ~HasGroup(g)
     THEN handlers' = [handlers EXCEPT ![r] =
                         Done("group_enable", g, host, Err("unknown-group", g))]
     ELSE GroupCheckAt(r, [Idle EXCEPT !.pc = "gcheck", !.typ = "group_enable",
                                       !.name = g, !.host = host, !.idx = 1])
  /\ UNCHANGED <<tun, bo, vt, cli, run, mon, m, state, disk, netStatus, tasks>>

\* a later iteration of the loop of checkGroupPortConflicts
checkGroupPortConflicts(r) ==
  /\ handlers[r].pc = "gcheck"
  /\ GroupCheckAt(r, handlers[r])
  /\ UNCHANGED <<tun, bo, vt, cli, run, mon, m, state, disk, netStatus, tasks, nev>>

\* one iteration of the loop of StartGroup: StartTunnel of the idx-th name
StartGroup(r, connOK, listenOK) ==
  /\ handlers[r].pc = "gstart"
  /\ LET h == handlers[r]
         tunnelNames == GetTunnelsForGroup(h.name)
         name == tunnelNames[h.idx]
         res == StartTunnel(m, name, h.host, connOK, listenOK)
     IN /\ Fits(res.m)
        /\ m' = Collect(res.m)
        /\ handlers' = [handlers EXCEPT ![r] =
             IF res.err # Nil
             THEN IF h.started = <<>>
                  THEN Done(h.typ, h.name, h.host, Wrap(name, res.err))
                  ELSE [h EXCEPT !.pc = "rollback", !.idx = 1,
                                 !.err = Wrap(name, res.err)]
             ELSE IF h.idx = Len(tunnelNames)
                  THEN [h EXCEPT !.pc = "add", !.idx = 0, !.started = <<>>]
                  ELSE [h EXCEPT !.idx = h.idx + 1,
                                 !.started = Append(h.started, name)]]
  /\ UNCHANGED <<tun, bo, vt, cli, run, mon, state, disk, netStatus, tasks, nev>>

\* Variant: the inner loop of StartGroup stops nothing.
StartGroupRollback_Skip(r) ==
  /\ handlers[r].pc = "rollback"
  /\ handlers' = [handlers EXCEPT ![r] =
       Done(handlers[r].typ, handlers[r].name, handlers[r].host, handlers[r].err)]
  /\ UNCHANGED <<tun, bo, vt, cli, run, mon, m, state, disk, netStatus, tasks, nev>>

\* one iteration of the inner loop of StartGroup: StopTunnel of a started name
StartGroupRollback(r) ==
  /\ handlers[r].pc = "rollback"
  /\ LET h == handlers[r]
         res == StopTunnel(m, h.started[h.idx])
     IN /\ m' = Collect(res.m)
        /\ handlers' = [handlers EXCEPT ![r] =
             IF h.idx = Len(h.started)
             THEN Done(h.typ, h.name, h.host, h.err)
             ELSE [h EXCEPT !.idx = h.idx + 1]]
  /\ UNCHANGED <<tun, bo, vt, cli, run, mon, state, disk, netStatus, tasks, nev>>

(***************************************************************************)
(* group_disable                                                           *)
(***************************************************************************)
\* one iteration of the loop of StopGroup for handler record h
StopGroupAt(r, h) ==
  LET tunnelNames == GetTunnelsForGroup(h.name)
      res == StopTunnel(m, tunnelNames[h.idx])
      lastErr == IF res.err # Nil THEN res.err ELSE h.err
  IN /\ m' = Collect(res.m)
     /\ handlers' = [handlers EXCEPT ![r] =
          IF h.idx < Len(tunnelNames)
          THEN [h EXCEPT !.idx = h.idx + 1, !.err = lastErr]
          ELSE IF lastErr # Nil THEN Done(h.typ, h.name, "", lastErr)
          ELSE [h EXCEPT !.pc = "remove", !.idx = 0, !.err = Nil]]

\* Daemon.handleGroupDisable and Manager.StopGroup up to its first StopTunnel
handleGroupDisable(r, g) ==
  /\ handlers[r].pc = "idle"
  /\ FirstFree(r)
  /\ nev < MaxEvents
  /\ nev' = nev + 1
  /\ IF ~HasGroup(g)
     THEN /\ handlers' = [handlers EXCEPT ![r] =
                            Done("group_disable", g, "", Err("unknown-group", g))]
          /\ m' = m
     ELSE StopGroupAt(r, [Idle EXCEPT !.pc = "gstop", !.typ = "group_disable",
                                      !.name = g, !.idx = 1])
  /\ UNCHANGED <<tun, bo, vt, cli, run, mon, state, disk, netStatus, tasks>>

StopGroup(r) ==
  /\ handlers[r].pc = "gstop"
  /\ StopGroupAt(r, handlers[r])
  /\ UNCHANGED <<tun, bo, vt, cli, run, mon, state, disk, netStatus, tasks, nev>>

(***************************************************************************)
(* Transport loss and reconnection                                         *)
(***************************************************************************)
\* Client.keepAlive: the request of client id fails, the disconnect callback
\* (Manager.onSSHDisconnect for the client's host) runs, the goroutine ends
keepAlive(id) ==
  /\ id \in DOMAIN m.clients
  /\ m.clients[id].ka
  /\ nev < MaxEvents
  /\ nev' = nev + 1
  /\ m' = Collect(onSSHDisconnect([m EXCEPT !.clients[id].ka = FALSE],
                                  m.clients[id].host))
  /\ UNCHANGED <<tun, bo, vt, cli, run, mon, state, disk, handlers, netStatus, tasks>>

\* Daemon.handleStatus, Manager.CheckHealth: the health request of the pooled
\* client id fails or times out and Client.CheckHealth calls the disconnect
\* callback (Manager.onSSHDisconnect for the client's host)
CheckHealth(id) ==
  /\ id \in Range(m.sshClients)
  /\ IsConnected(m.clients, id)
  /\ nev < MaxEvents
  /\ nev' = nev + 1
  /\ m' = Collect(onSSHDisconnect(m, m.clients[id].host))
  /\ UNCHANGED <<tun, bo, vt, cli, run, mon, state, disk, handlers, netStatus, tasks>>

\* Variant: a change of the network status starts no reconnection.
onNetworkChange_NoTasks(status) ==
  /\ status # netStatus
  /\ nev < MaxEvents
  /\ nev' = nev + 1
  /\ netStatus' = status
  /\ UNCHANGED <<tun, bo, vt, cli, run, mon, m, state, disk, handlers, tasks>>

\* Monitor.checkNetwork observing a change, and Daemon.onNetworkChange /
\* reconnectAllTunnels: one reconnection goroutine per tunnel in error
onNetworkChange(status) ==
  /\ status # netStatus
  /\ nev < MaxEvents
  /\ nev' = nev + 1
  /\ netStatus' = status
  /\ LET broken == {n \in DOMAIN m.tunnels :
                      m.tunnels[n].status \in {"error", "reconnecting"}}
     IN IF status = "available"
        THEN /\ \A n \in broken : tasks[n] < MaxTasks
             /\ tasks' = [n \in Names |-> IF n \in broken THEN tasks[n] + 1 ELSE tasks[n]]
        ELSE tasks' = tasks
  /\ UNCHANGED <<tun, bo, vt, cli, run, mon, m, state, disk, handlers>>

\* one round of the goroutine of reconnectTunnelWithBackoff
reconnectTunnelWithBackoff(name, connOK, listenOK) ==
  /\ tasks[name] > 0
  /\ netStatus = "available"
  /\ LET res == ReconnectTunnel(m, name, connOK, listenOK)
     IN /\ Fits(res.m)
        /\ m' = Collect(res.m)
        /\ tasks' = IF res.err = Nil THEN [tasks EXCEPT ![name] = @ - 1] ELSE tasks
  /\ UNCHANGED <<tun, bo, vt, cli, run, mon, state, disk, handlers, netStatus, nev>>

(***************************************************************************)
(* Daemon.Run: restoreState, the wait for a signal, shutdown                *)
(***************************************************************************)
\* d.cancel() was called: d.ctx is done
Cancelled == run.pc \in {"shutsave", "stopall", "monstop", "rmpid", "exited"}

\* the process has not left Daemon.Run
Alive == run.pc # "exited"

\* Client.Connect dials with d.ctx: once the context is done no dial succeeds
ConnOutcomes == IF Cancelled THEN {FALSE} ELSE BOOLEAN

\* the state files a previous run of the daemon may have left under the
\* configuration Cfg (written by Save: no name twice in a list)
StateFiles ==
  { [active_groups  |-> <<[name |-> "g1", host |-> "h1"]>>,
     active_tunnels |-> <<[name |-> "a", host |-> "h2"]>>],
    [active_groups  |-> <<[name |-> "g2", host |-> "h1"], [name |-> "g1", host |-> "h2"]>>,
     active_tunnels |-> <<>>],
    [active_groups  |-> <<>>,
     active_tunnels |-> <<[name |-> "a", host |-> "h1"], [name |-> "b", host |-> "h1"]>>],
    [active_groups  |-> <<>>,
     active_tunnels |-> <<[name |-> "b", host |-> "h1"]>>] }

\* the entries of a state file: each is what is left of a request the
\* previous run served
Entries(file) == Len(file.active_groups) + Len(file.active_tunnels)

\* restoreState: State.Load, then the copy GetActiveGroups returns
restoreLoad ==
  /\ run.pc = "load"
  /\ state' = Load(state, disk)
  /\ run' = [pc |-> "groups", todo |-> state'.ActiveGroups, err |-> Nil]
  /\ UNCHANGED <<tun, bo, vt, cli, m, disk, handlers, netStatus, tasks, nev, mon>>

\* restoreState, first loop: Manager.StartGroup for the next persisted group,
\* up to and including the first iteration of checkGroupPortConflicts
restoreGroup ==
  /\ run.pc = "groups"
  /\ run.todo # <<>>
  /\ handlers["main"].pc = "idle"
  /\ LET gs == Head(run.todo)
     IN IF ~HasGroup(gs.name)
        THEN handlers' = [handlers EXCEPT !["main"] =
                            Done("restore", gs.name, gs.host, Err("unknown-group", gs.name))]
        ELSE GroupCheckAt("main", [Idle EXCEPT !.pc = "gcheck", !.typ = "restore",
                                               !.name = gs.name, !.host = gs.host, !.idx = 1])
  /\ UNCHANGED <<tun, bo, vt, cli, m, state, disk, netStatus, tasks, nev, run, mon>>

\* Variant: a group that fails to start ends the replay of the groups.
restoreGroupDone_GiveUp ==
  /\ run.pc = "groups"
  /\ handlers["main"].pc \in {"done", "add"}
  /\ run' = [run EXCEPT !.todo = IF handlers["main"].pc = "done" THEN <<>> ELSE Tail(run.todo),
                        !.err = IF handlers["main"].pc = "done"
                                THEN handlers["main"].err ELSE Nil]
  /\ handlers' = [handlers EXCEPT !["main"] = Idle]
  /\ UNCHANGED <<tun, bo, vt, cli, m, state, disk, netStatus, tasks, nev, mon>>

\* restoreState, first loop: StartGroup has returned, its outcome is logged
\* and the loop goes on with the next group
restoreGroupDone ==
  /\ run.pc = "groups"
  /\ handlers["main"].pc \in {"done", "add"}
  /\ run' = [run EXCEPT !.todo = Tail(run.todo),
                        !.err = IF handlers["main"].pc = "done"
                                THEN handlers["main"].err ELSE Nil]
  /\ handlers' = [handlers EXCEPT !["main"] = Idle]
  /\ UNCHANGED <<tun, bo, vt, cli, m, state, disk, netStatus, tasks, nev, mon>>

\* restoreState between the loops: the copy GetActiveTunnels returns
restoreTunnels ==
  /\ run.pc = "groups"
  /\ run.todo = <<>>
  /\ handlers["main"].pc = "idle"
  /\ run' = [pc |-> "tunnels", todo |-> state.ActiveTunnels, err |-> Nil]
  /\ UNCHANGED <<tun, bo, vt, cli, m, state, disk, handlers, netStatus, tasks, nev, mon>>

\* restoreState, second loop: Manager.StartTunnel for the next persisted
\* tunnel; its outcome is logged and the loop goes on
restoreTunnel(connOK, listenOK) ==
  /\ run.pc = "tunnels"
  /\ run.todo # <<>>
  /\ LET ts == Head(run.todo)
         res == StartTunnel(m, ts.name, ts.host, connOK, listenOK)
     IN /\ Fits(res.m)
        /\ m' = Collect(res.m)
        /\ run' = [run EXCEPT !.todo = Tail(run.todo), !.err = res.err]
  /\ UNCHANGED <<tun, bo, vt, cli, state, disk, handlers, netStatus, tasks, nev, mon>>

\* restoreState returns nil; Run logs "Daemon started" and waits in its select
restoreState ==
  /\ run.pc = "tunnels"
  /\ run.todo = <<>>
  /\ run' = Serving
  /\ UNCHANGED <<tun, bo, vt, cli, m, state, disk, handlers, netStatus, tasks, nev, mon>>

\* Run receives a signal (or d.ctx is cancelled over IPC); shutdown: d.cancel()
shutdown ==
  /\ run.pc = "serving"
  /\ run' = [run EXCEPT !.pc = "shutsave"]
  /\ UNCHANGED <<tun, bo, vt, cli, m, state, disk, handlers, netStatus, tasks, nev, mon>>

\* shutdown: d.state.Save()
shutdownSave ==
  /\ run.pc = "shutsave"
  /\ disk' = Save(state)
  /\ run' = [run EXCEPT !.pc = "stopall"]
  /\ UNCHANGED <<tun, bo, vt, cli, m, state, handlers, netStatus, tasks, nev, mon>>

\* Variant: the tunnels stopped at shutdown are taken out of the state as
\* tunnel_down and group_disable take them out, and the state is saved.
shutdownStopAll_Forget ==
  /\ run.pc = "stopall"
  /\ m' = Collect(StopAll(m).m)
  /\ state' = NewState
  /\ disk' = Save(NewState)
  /\ run' = [run EXCEPT !.pc = "monstop"]
  /\ UNCHANGED <<tun, bo, vt, cli, handlers, netStatus, tasks, nev, mon>>

\* shutdown: d.manager.StopAll()
shutdownStopAll ==
  /\ run.pc = "stopall"
  /\ m' = Collect(StopAll(m).m)
  /\ run' = [run EXCEPT !.pc = "monstop"]
  /\ UNCHANGED <<tun, bo, vt, cli, state, disk, handlers, netStatus, tasks, nev, mon>>

\* shutdown: d.networkMonitor.Stop(), and shutdown returns
shutdownMonitorStop ==
  /\ run.pc = "monstop"
  /\ run' = [run EXCEPT !.pc = "rmpid"]
  /\ UNCHANGED <<tun, bo, vt, cli, m, state, disk, handlers, netStatus, tasks, nev, mon>>

\* Run returns: its deferred calls stop the server and remove the PID file,
\* and the process ends
RemovePID ==
  /\ run.pc = "rmpid"
  /\ run' = [run EXCEPT !.pc = "exited"]
  /\ UNCHANGED <<tun, bo, vt, cli, m, state, disk, handlers, netStatus, tasks, nev, mon>>

\* the goroutine of reconnectTunnelWithBackoff finds d.ctx done and returns
reconnectCancelled(name) ==
  /\ Cancelled
  /\ tasks[name] > 0
  /\ tasks' = [tasks EXCEPT ![name] = @ - 1]
  /\ UNCHANGED <<tun, bo, vt, cli, m, state, disk, handlers, netStatus, nev, run, mon>>

\* A response is written as soon as the handler has produced it; this step
\* touches nothing shared, so it is taken before any other step.
Responding == \E r \in Handlers : handlers[r].pc = "done"

Next ==
  \/ \E r \in Handlers : handleConnection(r)
  \/ ~Responding /\ \E r \in Handlers, name \in ReqNames, host \in ReqHosts,
        connOK \in BOOLEAN, listenOK \in BOOLEAN :
          handleTunnelUp(r, name, host, connOK, listenOK)
  \/ ~Responding /\ \E r \in Handlers : stateAdd(r)
  \/ ~Responding /\ \E r \in Handlers : stateRemove(r)
  \/ ~Responding /\ \E r \in Handlers : stateSave(r)
  \/ ~Responding /\ \E r \in Handlers, name \in ReqNames :
          handleTunnelDown(r, name)
  \/ ~Responding /\ \E r \in Handlers, g \in ReqGroups, host \in ReqHosts :
          handleGroupEnable(r, g, host)
  \/ ~Responding /\ \E r \in Handlers : checkGroupPortConflicts(r)
  \/ ~Responding /\ \E r \in Handlers, connOK \in BOOLEAN, listenOK \in BOOLEAN :
          StartGroup(r, connOK, listenOK)
  \/ ~Responding /\ \E r \in Handlers : StartGroupRollback(r)
  \/ ~Responding /\ \E r \in Handlers, g \in ReqGroups :
          handleGroupDisable(r, g)
  \/ ~Responding /\ \E r \in Handlers : StopGroup(r)
  \/ ~Responding /\ \E id \in ClientIds : keepAlive(id)
  \/ ~Responding /\ \E id \in ClientIds : CheckHealth(id)
  \/ ~Responding /\ \E status \in {"available", "unavailable"} :
          onNetworkChange(status)
  \/ ~Responding /\ \E name \in Names, connOK \in BOOLEAN, listenOK \in BOOLEAN :
          reconnectTunnelWithBackoff(name, connOK, listenOK)

Spec == Init /\ [][Next]_vars

(***************************************************************************)
(* Scheduling: a goroutine that can take its next step takes it.  Requests, *)
(* transport losses and changes of the network status are up to the         *)
(* environment and carry no fairness.  A reconnection goroutine retries     *)
(* (after its backoff) for as long as it fails, and the environment lets a  *)
(* retry succeed at some point.                                             *)
(***************************************************************************)
Fairness ==
  /\ \A r \in Handlers :
        /\ WF_vars(handleConnection(r))
        /\ WF_vars(~Responding /\ stateAdd(r))
        /\ WF_vars(~Responding /\ stateRemove(r))
        /\ WF_vars(~Responding /\ stateSave(r))
        /\ WF_vars(~Responding /\ checkGroupPortConflicts(r))
        /\ WF_vars(~Responding /\ \E connOK \in BOOLEAN, listenOK \in BOOLEAN :
                                     StartGroup(r, connOK, listenOK))
        /\ WF_vars(~Responding /\ StartGroupRollback(r))
        /\ WF_vars(~Responding /\ StopGroup(r))
  /\ \A name \in Names :
        WF_vars(~Responding /\ reconnectTunnelWithBackoff(name, TRUE, TRUE))

SpecFair == Spec /\ Fairness

(***************************************************************************)
(* The network monitor on its own: goroutines that call WaitForNetwork     *)
(* while the polling goroutine runs checkNetwork.  The tunnels play no     *)
(* part; the Manager stays as NewManager left it.                          *)
(***************************************************************************)
\* WaitForNetwork is entered: the check of IsAvailable
WaitForNetwork(w) ==
  /\ mon.waiters[w].pc = "out"
  /\ mon' = [mon EXCEPT !.waiters[w].pc =
                IF netStatus = "available" THEN "returned" ELSE "checked"]
  /\ UNCHANGED <<tun, bo, vt, cli, m, state, disk, handlers, netStatus, tasks, nev, run>>

\* WaitForNetwork under m.mu: the callback in place is kept as oldCallback
\* and a wrapper that signals ch and then calls oldCallback replaces it
waitRegister(w) ==
  /\ mon.waiters[w].pc = "checked"
  /\ mon' = [mon EXCEPT !.waiters[w].pc = "waiting",
                        !.waiters[w].old = mon.onChange,
                        !.onChange = <<w>> \o mon.onChange]
  /\ UNCHANGED <<tun, bo, vt, cli, m, state, disk, handlers, netStatus, tasks, nev, run>>

\* WaitForNetwork: the select receives from ch
waitSelect(w) ==
  /\ mon.waiters[w].pc = "waiting"
  /\ mon.waiters[w].ch
  /\ mon' = [mon EXCEPT !.waiters[w].pc = "woken", !.waiters[w].ch = FALSE]
  /\ UNCHANGED <<tun, bo, vt, cli, m, state, disk, handlers, netStatus, tasks, nev, run>>

\* WaitForNetwork: the deferred function puts oldCallback back; the call returns
waitReturn(w) ==
  /\ mon.waiters[w].pc = "woken"
  /\ mon' = [mon EXCEPT !.waiters[w].pc = "returned",
                        !.onChange = mon.waiters[w].old]
  /\ UNCHANGED <<tun, bo, vt, cli, m, state, disk, handlers, netStatus, tasks, nev, run>>

\* Monitor.checkNetwork under m.mu: the lookup gave a status other than the
\* recorded one; the status is recorded and the callback in place is read.
\* seen notes, for the callers inside WaitForNetwork, a transition to available.
checkNetwork(status) ==
  /\ mon.pending = <<>>
  /\ status # netStatus
  /\ nev < MaxEvents
  /\ nev' = nev + 1
  /\ netStatus' = status
  /\ mon' = [mon EXCEPT
       !.pending = <<[callback |-> mon.onChange, status |-> status]>>,
       !.waiters = [w \in Waiters |->
                      IF status = "available" /\ mon.waiters[w].pc \in {"checked", "waiting"}
                      THEN [mon.waiters[w] EXCEPT !.seen = TRUE]
                      ELSE mon.waiters[w]]]
  /\ UNCHANGED <<tun, bo, vt, cli, m, state, disk, handlers, tasks, run>>

\* Monitor.checkNetwork after the unlock: the callback it read is called;
\* every wrapper in it signals its channel on available (the send does not
\* block) and passes the status on, down to Daemon.onNetworkChange, which
\* finds no tunnel to reconnect
callOnChange ==
  /\ mon.pending # <<>>
  /\ LET call == mon.pending[1]
     IN mon' = [mon EXCEPT
          !.pending = <<>>,
          !.waiters = [w \in Waiters |->
                         IF call.status = "available" /\ w \in Range(call.callback)
                         THEN [mon.waiters[w] EXCEPT !.ch = TRUE]
                         ELSE mon.waiters[w]]]
  /\ UNCHANGED <<tun, bo, vt, cli, m, state, disk, handlers, netStatus, tasks, nev, run>>

NextMonitor ==
  \/ \E w \in Waiters : WaitForNetwork(w)
  \/ \E w \in Waiters : waitRegister(w)
  \/ \E w \in Waiters : waitSelect(w)
  \/ \E w \in Waiters : waitReturn(w)
  \/ \E status \in {"available", "unavailable"} : checkNetwork(status)
  \/ callOnChange

\* every goroutine inside WaitForNetwork takes its next step, and the polling
\* goroutine calls the callback it has read; when the network changes is up
\* to the environment
SpecMonitor ==
  /\ Init
  /\ [][NextMonitor]_vars
  /\ \A w \in Waiters :
        WF_vars(waitRegister(w)) /\ WF_vars(waitSelect(w)) /\ WF_vars(waitReturn(w))
  /\ WF_vars(callOnChange)

(***************************************************************************)
(* The daemon from a moment at which a tunnel has lost its transport:      *)
(* tunnel_up(a, h1) had succeeded and was saved, the keepalive of the       *)
(* transport has failed since, and the events counted are those after it.   *)
(***************************************************************************)
InitRecover ==
  /\ m = Collect(onSSHDisconnect(StartTunnel(NewManager, "a", "h1", TRUE, TRUE).m, "h1"))
  /\ state = AddTunnel(NewState, "a", "h1")
  /\ disk = Save(AddTunnel(NewState, "a", "h1"))
  /\ handlers = [r \in Procs |-> Idle]
  /\ netStatus = "unknown"
  /\ tasks = [n \in Names |-> 0]
  /\ nev = 0
  /\ run = Serving
  /\ mon = NewMonitor
  /\ tun = NewTunnel
  /\ bo = NoBackoff
  /\ vt = NoTunnelEntry
  /\ cli = NoClient

\* the requests on single tunnels, the losses, the changes of the network
\* status and the reconnection tasks
NextRecover ==
  \/ \E r \in Handlers : handleConnection(r)
  \/ ~Responding /\ \E r \in Handlers, name \in ReqNames, host \in ReqHosts,
        connOK \in BOOLEAN, listenOK \in BOOLEAN :
          handleTunnelUp(r, name, host, connOK, listenOK)
  \/ ~Responding /\ \E r \in Handlers : stateAdd(r)
  \/ ~Responding /\ \E r \in Handlers : stateRemove(r)
  \/ ~Responding /\ \E r \in Handlers : stateSave(r)
  \/ ~Responding /\ \E r \in Handlers, name \in ReqNames :
          handleTunnelDown(r, name)
  \/ ~Responding /\ \E id \in ClientIds : keepAlive(id)
  \/ ~Responding /\ \E status \in {"available", "unavailable"} :
          onNetworkChange(status)
  \/ ~Responding /\ \E name \in Names, connOK \in BOOLEAN, listenOK \in BOOLEAN :
          reconnectTunnelWithBackoff(name, connOK, listenOK)

\* a handler that can take its next step takes it, and a reconnection task
\* goes on with rounds that the environment lets succeed at some point
RecoverFairness ==
  /\ WF_vars(\E r \in Handlers : handleConnection(r))
  /\ WF_vars(~Responding /\ \E r \in Handlers : stateAdd(r) \/ stateRemove(r) \/ stateSave(r))
  /\ WF_vars(~Responding /\ reconnectTunnelWithBackoff("a", TRUE, TRUE))

SpecRecover == InitRecover /\ [][NextRecover]_vars /\ RecoverFairness

(***************************************************************************)
(* One tunnel object on its own: Start, the accept loop, a handler with two *)
(* pumps per connection, and Stop, called directly or by StopTunnel.  Every *)
(* caller of Start and Stop in the Manager holds m.mu, so the calls do not  *)
(* overlap.  LocalTunnel and RemoteTunnel have the same shape.              *)
(***************************************************************************)
\* Variant: Stop waits for the accept loop only.
WaitGroupZero_AcceptOnly(t) == t.accept # "running"

\* t.wg.Wait() returns: the accept loop and every connection handler have
\* called wg.Done
WaitGroupZero(t) ==
  /\ t.accept # "running"
  /\ \A c \in ConnIds : t.conns[c].pc \in {"none", "done"}

\* Start (under StartTunnel): the context, the listener, the accept loop; a
\* tunnel that fails to listen is not put into the running map
tunStart(listenOK) ==
  /\ tun.stop = "out"
  /\ tun.status = "stopped"
  /\ ~tun.cancel
  /\ tun' = IF listenOK
            THEN [tun EXCEPT !.cancel = TRUE, !.listener = "open", !.status = "connected",
                             !.accept = "running", !.inMap = TRUE]
            ELSE [tun EXCEPT !.cancel = TRUE, !.status = "error"]
  /\ UNCHANGED <<daemonVars, bo, vt, cli>>

\* acceptLoop: Accept returns a connection; wg.Add(1), go handleConnection
tunAccept(c) ==
  /\ tun.accept = "running"
  /\ tun.listener = "open"
  /\ tun.conns[c].pc = "none"
  /\ \A d \in ConnIds : d < c => tun.conns[d].pc # "none"
  /\ tun' = [tun EXCEPT !.conns[c].pc = "dial"]
  /\ UNCHANGED <<daemonVars, bo, vt, cli>>

\* acceptLoop: Accept fails on the closed listener and the context is done
tunAcceptExit ==
  /\ tun.accept = "running"
  /\ tun.listener = "closed"
  /\ tun.ctxDone
  /\ tun' = [tun EXCEPT !.accept = "ended"]
  /\ UNCHANGED <<daemonVars, bo, vt, cli>>

\* handleConnection: the dial of the other side; on failure the handler
\* returns, on success it starts the two copies and waits for both
tunDial(c, ok) ==
  /\ tun.conns[c].pc = "dial"
  /\ tun' = [tun EXCEPT !.conns[c] =
                IF ok THEN [pc |-> "pumping", up |-> TRUE, down |-> TRUE]
                ELSE [pc |-> "done", up |-> FALSE, down |-> FALSE]]
  /\ UNCHANGED <<daemonVars, bo, vt, cli>>

\* handleConnection: io.Copy in one direction returns (the peer closed)
tunPumpEnd(c, dir) ==
  /\ tun.conns[c].pc = "pumping"
  /\ tun.conns[c][dir]
  /\ tun' = [tun EXCEPT !.conns[c][dir] = FALSE]
  /\ UNCHANGED <<daemonVars, bo, vt, cli>>

\* handleConnection: wg.Wait() of the two copies returns, the connections
\* are closed, t.wg.Done()
tunConnDone(c) ==
  /\ tun.conns[c].pc = "pumping"
  /\ ~tun.conns[c].up
  /\ ~tun.conns[c].down
  /\ tun' = [tun EXCEPT !.conns[c].pc = "done"]
  /\ UNCHANGED <<daemonVars, bo, vt, cli>>

\* Stop is called, by StopTunnel for a tunnel of the running map or
\* directly: t.cancel() if there is a context
tunStopCancel(caller) ==
  /\ tun.stop = "out"
  /\ tun.stops < MaxStops
  /\ caller = "StopTunnel" => tun.inMap
  /\ tun' = [tun EXCEPT !.stop = "close", !.stops = @ + 1, !.caller = caller,
                        !.ctxDone = tun.cancel]
  /\ UNCHANGED <<daemonVars, bo, vt, cli>>

\* Stop: t.listener.Close() if there is a listener
tunStopClose ==
  /\ tun.stop = "close"
  /\ tun' = [tun EXCEPT !.stop = "wait",
                        !.listener = IF tun.listener = "nil" THEN "nil" ELSE "closed"]
  /\ UNCHANGED <<daemonVars, bo, vt, cli>>

\* Stop: t.wg.Wait() returns, SetStatus(StatusStopped), return nil; StopTunnel
\* then deletes the tunnel from the running map and tunnel_down answers
tunStopReturn ==
  /\ tun.stop = "wait"
  /\ WaitGroupZero(tun)
  /\ tun' = [tun EXCEPT !.stop = "out", !.status = "stopped",
                        !.inMap = IF tun.caller = "StopTunnel" THEN FALSE ELSE @,
                        !.resp = IF tun.caller = "StopTunnel" THEN "success" ELSE @]
  /\ UNCHANGED <<daemonVars, bo, vt, cli>>

NextTunnel ==
  \/ \E listenOK \in BOOLEAN : tunStart(listenOK)
  \/ \E c \in ConnIds : tunAccept(c)
  \/ tunAcceptExit
  \/ \E c \in ConnIds, ok \in BOOLEAN : tunDial(c, ok)
  \/ \E c \in ConnIds, dir \in {"up", "down"} : tunPumpEnd(c, dir)
  \/ \E c \in ConnIds : tunConnDone(c)
  \/ \E caller \in {"StopTunnel", "Stop"} : tunStopCancel(caller)
  \/ tunStopClose
  \/ tunStopReturn

\* the goroutines of the tunnel and the caller of Stop take their steps; when
\* a peer closes its side (tunPumpEnd) is up to the peer
SpecTunnel ==
  /\ Init
  /\ [][NextTunnel]_vars
  /\ WF_vars(tunAcceptExit)
  /\ WF_vars(tunStopClose)
  /\ WF_vars(tunStopReturn)
  /\ \A c \in ConnIds : WF_vars(tunConnDone(c)) /\ WF_vars(\E ok \in BOOLEAN : tunDial(c, ok))

(***************************************************************************)
(* One ssh.Client object from its Connect to its Close: its place in the    *)
(* pool of the Manager, its keepalive goroutine, and the health checks that *)
(* concurrent status requests (one per control connection) run on it.       *)
(***************************************************************************)
\* the disconnect callback of the client is called: Manager.onSSHDisconnect
\* for the host of the client closes and removes the client of the pool
onDisconnect(c) ==
  IF c.pooled
  THEN [c EXCEPT !.calls = @ + 1, !.open = FALSE, !.pooled = FALSE]
  ELSE [c EXCEPT !.calls = @ + 1]

\* getOrCreateSSHClient: NewClient, Connect (which starts keepAlive),
\* SetOnDisconnect, and the client is put into the pool
cliConnect ==
  /\ cli = NoClient
  /\ cli' = [cli EXCEPT !.open = TRUE, !.pooled = TRUE, !.ka = "idle"]
  /\ UNCHANGED <<daemonVars, tun, bo, vt>>

\* keepAlive: the ticker fires and the session is there: SendRequest
cliKeepAliveSend ==
  /\ cli.ka = "idle"
  /\ cli.open
  /\ cli' = [cli EXCEPT !.ka = "sending"]
  /\ UNCHANGED <<daemonVars, tun, bo, vt>>

\* keepAlive: keepAliveStop is closed, or the ticker fires and the session is
\* gone: return
cliKeepAliveStop ==
  /\ cli.ka = "idle"
  /\ ~cli.open
  /\ cli' = [cli EXCEPT !.ka = "ended"]
  /\ UNCHANGED <<daemonVars, tun, bo, vt>>

\* keepAlive: SendRequest returns; with an error the callback is called and
\* the goroutine returns.  On a closed session the request fails.
cliKeepAliveReply(ok) ==
  /\ cli.ka = "sending"
  /\ ok => cli.open
  /\ ~ok => cli.mu = {}
  /\ cli' = IF ok THEN [cli EXCEPT !.ka = "idle"]
            ELSE onDisconnect([cli EXCEPT !.ka = "ended"])
  /\ UNCHANGED <<daemonVars, tun, bo, vt>>

\* Manager.CheckHealth for the status request of r: m.mu.RLock()
cliCheckRLock(r) ==
  /\ cli.checks[r] = "none"
  /\ cli' = [cli EXCEPT !.checks[r] = "rlocked", !.mu = @ \cup {r}]
  /\ UNCHANGED <<daemonVars, tun, bo, vt>>

\* Variant: the read lock is released by a deferred call, at the return of
\* Manager.CheckHealth.
cliCheckSnapshot_Deferred(r) ==
  /\ cli.checks[r] = "rlocked"
  /\ cli' = [cli EXCEPT !.checks[r] = IF cli.pooled THEN "snapshot" ELSE "done",
                        !.mu = IF cli.pooled THEN @ ELSE @ \ {r}]
  /\ UNCHANGED <<daemonVars, tun, bo, vt>>

\* Manager.CheckHealth: the copy of the pool, m.mu.RUnlock(), and the return
\* when the copy is empty
cliCheckSnapshot(r) ==
  /\ cli.checks[r] = "rlocked"
  /\ cli' = [cli EXCEPT !.checks[r] = IF cli.pooled THEN "snapshot" ELSE "done",
                        !.mu = @ \ {r}]
  /\ UNCHANGED <<daemonVars, tun, bo, vt>>

\* Client.CheckHealth: without a session it returns "not connected",
\* otherwise it sends the request
cliCheckSend(r) ==
  /\ cli.checks[r] = "snapshot"
  /\ cli' = [cli EXCEPT !.checks[r] = IF cli.open THEN "sending" ELSE "done"]
  /\ UNCHANGED <<daemonVars, tun, bo, vt>>

\* Client.CheckHealth: the reply; an error and a timeout both call the
\* callback.  On a closed session the request fails.
cliCheckReply(r, ok) ==
  /\ cli.checks[r] = "sending"
  /\ ok => cli.open
  /\ cli' = [cli EXCEPT !.checks[r] = IF ok THEN "done" ELSE "callback"]
  /\ UNCHANGED <<daemonVars, tun, bo, vt>>

\* the callback of a failed check: onSSHDisconnect takes m.mu, does its work
\* and releases it; Client.CheckHealth and then Manager.CheckHealth return
cliCheckCallback(r) ==
  /\ cli.checks[r] = "callback"
  /\ cli.mu = {}
  /\ cli' = onDisconnect([cli EXCEPT !.checks[r] = "done"])
  /\ UNCHANGED <<daemonVars, tun, bo, vt>>

\* the Manager closes the client: cleanupUnusedClients or StopAll
cliClose ==
  /\ cli.pooled
  /\ cli.mu = {}
  /\ cli' = [cli EXCEPT !.open = FALSE, !.pooled = FALSE]
  /\ UNCHANGED <<daemonVars, tun, bo, vt>>

\* ReconnectTunnel deletes the client from the pool and does not close it
cliEvict ==
  /\ cli.pooled
  /\ cli.mu = {}
  /\ cli' = [cli EXCEPT !.pooled = FALSE]
  /\ UNCHANGED <<daemonVars, tun, bo, vt>>

NextClient ==
  \/ cliConnect
  \/ cliKeepAliveSend
  \/ cliKeepAliveStop
  \/ \E ok \in BOOLEAN : cliKeepAliveReply(ok)
  \/ \E r \in Handlers : cliCheckRLock(r)
  \/ \E r \in Handlers : cliCheckSnapshot(r)
  \/ \E r \in Handlers : cliCheckSend(r)
  \/ \E r \in Handlers, ok \in BOOLEAN : cliCheckReply(r, ok)
  \/ \E r \in Handlers : cliCheckCallback(r)
  \/ cliClose
  \/ cliEvict

SpecClient == Init /\ [][NextClient]_vars

\* a check_health under way takes its steps, and a health check gets its
\* reply or its timeout; when a status request arrives is up to the clients
SpecClientFair ==
  /\ SpecClient
  /\ \A r \in Handlers :
        /\ WF_vars(cliCheckSnapshot(r))
        /\ WF_vars(cliCheckSend(r))
        /\ WF_vars(\E ok \in BOOLEAN : cliCheckReply(r, ok))
        /\ WF_vars(cliCheckCallback(r))

(***************************************************************************)
(* reconnect.Backoff.  A time.Duration is counted in ticks of 250 ms (1s is *)
(* 4, 10s is 40); the multiplier, a float64, is counted in halves (2.0 is   *)
(* 4, 1.5 is 3, 1.0 is 2); a conversion of a float64 to a Duration drops    *)
(* the fraction.  The durations are not negative.                           *)
(***************************************************************************)
Second == 4
Initials == {1, Second, 6, 15 * Second}
Maxes == {6, 10 * Second}
Multipliers == {2, 3, 4}

\* NewBackoff: the fields as given, current = initial; nothing is checked
NewBackoff(initial, max, multiplier) ==
  [initial |-> initial, max |-> max, multiplier |-> multiplier, current |-> initial,
   op |-> "new", last |-> 0, calls |-> 0, resets |-> 0]

\* time.Duration(float64(d) * multiplier)
Times(d, multiplier) == (d * multiplier) \div 2

\* time.Duration(float64(d) * 0.25 * rand.Float64()), rand.Float64() = k / RandSteps
Jitter(d, k) == (d * k) \div (4 * RandSteps)

\* Variant: Next does not cap the floor at max.
BackoffNext_NoCap(b, k) ==
  [b EXCEPT !.last = b.current + Jitter(b.current, k),
            !.current = Times(b.current, b.multiplier),
            !.op = "next", !.calls = @ + 1]

\* Backoff.Next: the delay returned is kept in last
BackoffNext(b, k) ==
  LET duration == b.current + Jitter(b.current, k)
      next == Times(b.current, b.multiplier)
  IN [b EXCEPT !.last = duration,
               !.current = IF next > b.max THEN b.max ELSE next,
               !.op = "next", !.calls = @ + 1]

\* Backoff.Reset
BackoffReset(b) == [b EXCEPT !.current = b.initial, !.op = "reset", !.calls = 0, !.resets = @ + 1]

boNew(initial, max, multiplier) ==
  /\ bo.op = "none"
  /\ bo' = NewBackoff(initial, max, multiplier)
  /\ UNCHANGED <<daemonVars, tun, vt, cli>>

boNext(k) ==
  /\ bo.op # "none"
  /\ bo.calls < MaxCalls
  /\ bo' = BackoffNext(bo, k)
  /\ UNCHANGED <<daemonVars, tun, vt, cli>>

boReset ==
  /\ bo.op # "none"
  /\ bo.resets < MaxResets
  /\ bo' = BackoffReset(bo)
  /\ UNCHANGED <<daemonVars, tun, vt, cli>>

NextBackoff ==
  \/ \E initial \in Initials, max \in Maxes, multiplier \in Multipliers :
        boNew(initial, max, multiplier)
  \/ \E k \in 0..(RandSteps - 1) : boNext(k)
  \/ boReset

SpecBackoff == Init /\ [][NextBackoff]_vars

(***************************************************************************)
(* Config.validateTunnel on one tunnel entry of a configuration file.  The  *)
(* ports are Go ints; the values read are taken around the two ends of the  *)
(* range.                                                                   *)
(***************************************************************************)
PortValues == {-1, 0, 1, 2, 8080, 65534, 65535, 65536, 70000}
TypeValues == {"local", "remote", "udp"}

ValidationError(field, message) == [Field |-> field, Message |-> message]

\* Variant: the upper end of the range is not checked.
validateTunnel_NoUpperEnd(name, t) ==
  (IF t.type \notin {"local", "remote"}
   THEN <<ValidationError(<<"tunnels", name, "type">>, "must be 'local' or 'remote'")>>
   ELSE <<>>)
  \o (IF t.local_port <= 0
      THEN <<ValidationError(<<"tunnels", name, "local_port">>, "must be between 1 and 65535")>>
      ELSE <<>>)
  \o (IF t.remote_port <= 0
      THEN <<ValidationError(<<"tunnels", name, "remote_port">>, "must be between 1 and 65535")>>
      ELSE <<>>)

\* validateTunnel: the errors of one entry, in the order of the checks; the
\* field of an error is the path tunnels.<name>.<field>
validateTunnel(name, t) ==
  (IF t.type # "local" /\ t.type # "remote"
   THEN <<ValidationError(<<"tunnels", name, "type">>, "must be 'local' or 'remote'")>>
   ELSE <<>>)
  \o (IF t.local_port <= 0 \/ t.local_port > 65535
      THEN <<ValidationError(<<"tunnels", name, "local_port">>, "must be between 1 and 65535")>>
      ELSE <<>>)
  \o (IF t.remote_port <= 0 \/ t.remote_port > 65535
      THEN <<ValidationError(<<"tunnels", name, "remote_port">>, "must be between 1 and 65535")>>
      ELSE <<>>)

\* an entry of the configuration file is read
vtRead(name, type, local_port, remote_port) ==
  /\ vt = NoTunnelEntry
  /\ cli = NoClient
  /\ vt' = [name |-> name, type |-> type, local_port |-> local_port,
            remote_port |-> remote_port, errs |-> <<>>, done |-> FALSE]
  /\ UNCHANGED <<daemonVars, tun, bo, cli>>

\* Validate calls validateTunnel on the entry and collects its errors
vtValidate ==
  /\ vt # NoTunnelEntry
  /\ ~vt.done
  /\ vt' = [vt EXCEPT !.errs = validateTunnel(vt.name, vt), !.done = TRUE]
  /\ UNCHANGED <<daemonVars, tun, bo, cli>>

NextValidate ==
  \/ \E name \in Names, type \in TypeValues, local_port \in PortValues, remote_port \in PortValues :
        vtRead(name, type, local_port, remote_port)
  \/ vtValidate

SpecValidate == Init /\ [][NextValidate]_vars

(***************************************************************************)
(* The whole of Daemon.Run: the daemon starts over a state file, replays   *)
(* it while the server already accepts connections, serves, and shuts down *)
(***************************************************************************)
InitRun ==
  /\ m = NewManager
  /\ state = NewState
  /\ disk \in StateFiles
  /\ handlers = [r \in Procs |-> Idle]
  /\ netStatus = "unknown"
  /\ tasks = [n \in Names |-> 0]
  /\ nev = Entries(disk)
  /\ run = [pc |-> "load", todo |-> <<>>, err |-> Nil]
  /\ mon = NewMonitor
  /\ tun = NewTunnel
  /\ bo = NoBackoff
  /\ vt = NoTunnelEntry
  /\ cli = NoClient

\* no response is being written and the process is alive
Ready == Alive /\ ~Responding

NextRun ==
  \/ Alive /\ \E r \in Handlers : handleConnection(r)
  \/ Ready /\ \E r \in Handlers, name \in ReqNames, host \in ReqHosts,
        connOK \in ConnOutcomes, listenOK \in BOOLEAN :
          handleTunnelUp(r, name, host, connOK, listenOK)
  \/ Ready /\ \E r \in Handlers : stateAdd(r)
  \/ Ready /\ \E r \in Handlers : stateRemove(r)
  \/ Ready /\ \E r \in Handlers : stateSave(r)
  \/ Ready /\ \E r \in Handlers, name \in ReqNames :
          handleTunnelDown(r, name)
  \/ Ready /\ \E r \in Handlers, g \in ReqGroups, host \in ReqHosts :
          handleGroupEnable(r, g, host)
  \/ Ready /\ \E r \in Procs : checkGroupPortConflicts(r)
  \/ Ready /\ \E r \in Procs, connOK \in ConnOutcomes, listenOK \in BOOLEAN :
          StartGroup(r, connOK, listenOK)
  \/ Ready /\ \E r \in Procs : StartGroupRollback(r)
  \/ Ready /\ \E r \in Handlers, g \in ReqGroups :
          handleGroupDisable(r, g)
  \/ Ready /\ \E r \in Handlers : StopGroup(r)
  \/ Ready /\ \E id \in ClientIds : keepAlive(id)
  \/ Ready /\ \E id \in ClientIds : CheckHealth(id)
  \/ Ready /\ \E status \in {"available", "unavailable"} :
          onNetworkChange(status)
  \/ Ready /\ \E name \in Names, connOK \in ConnOutcomes, listenOK \in BOOLEAN :
          reconnectTunnelWithBackoff(name, connOK, listenOK)
  \/ Ready /\ \E name \in Names : reconnectCancelled(name)
  \/ Ready /\ restoreLoad
  \/ Ready /\ restoreGroup
  \/ Ready /\ restoreGroupDone
  \/ Ready /\ restoreTunnels
  \/ Ready /\ \E connOK \in BOOLEAN, listenOK \in BOOLEAN :
          restoreTunnel(connOK, listenOK)
  \/ Ready /\ restoreState
  \/ Ready /\ shutdown
  \/ Ready /\ shutdownSave
  \/ Ready /\ shutdownStopAll
  \/ Ready /\ shutdownMonitorStop
  \/ Ready /\ RemovePID

SpecRun == InitRun /\ [][NextRun]_vars

\* the goroutine of Daemon.Run takes its next step whenever it can, and so do
\* the handlers that write a response
SpecRunFair ==
  /\ SpecRun
  /\ WF_vars(Ready /\ restoreLoad)
  /\ WF_vars(Ready /\ restoreGroup)
  /\ WF_vars(Ready /\ restoreGroupDone)
  /\ WF_vars(Ready /\ restoreTunnels)
  /\ WF_vars(Ready /\ \E connOK \in BOOLEAN, listenOK \in BOOLEAN :
                         restoreTunnel(connOK, listenOK))
  /\ WF_vars(Ready /\ restoreState)
  /\ WF_vars(Ready /\ checkGroupPortConflicts("main"))
  /\ WF_vars(Ready /\ \E connOK \in BOOLEAN, listenOK \in BOOLEAN :
                         StartGroup("main", connOK, listenOK))
  /\ WF_vars(Ready /\ StartGroupRollback("main"))
  /\ \A r \in Handlers : WF_vars(handleConnection(r))

TypeOK ==
  /\ DOMAIN m.tunnels \subseteq Names
  /\ DOMAIN m.sshClients \subseteq Hosts
  /\ DOMAIN m.clients \subseteq ClientIds

(***************************************************************************)
(* Properties                                                              *)
(***************************************************************************)
\* the step is handler r taking up a request of type typ
Begins(r, typ) ==
  handlers[r].pc = "idle" /\ handlers'[r].pc # "idle" /\ handlers'[r].typ = typ

\* the ssh.Client object id is closed (or gone) in manager M
Closed(M, id) == id \notin DOMAIN M.clients \/ ~M.clients[id].open

\* the entries of a persisted list for one name
EntriesOf(list, name) == {i \in 1..Len(list) : list[i].name = name}

\* C1: in every reachable state no two tunnels of the running map have the
\* same local port, whatever their host, kind or status.
C1_UniquePorts ==
  \A n1 \in DOMAIN m.tunnels, n2 \in DOMAIN m.tunnels :
     n1 # n2 => m.tunnels[n1].port # m.tunnels[n2].port

\* a tunnel whose transport was lost (status error) still holds its port: a
\* request for another tunnel of that port was refused naming it
C1_Witness ==
  \E n \in DOMAIN m.tunnels, r \in Handlers :
     /\ m.tunnels[n].status = "error"
     /\ handlers[r].pc = "done"
     /\ handlers[r].typ = "tunnel_up"
     /\ handlers[r].err = Err("port-conflict", n)

\* C2: tunnel_up(b, h) for a tunnel b that is not running and whose configured
\* local port is held by a running tunnel a fails with a port conflict naming
\* a; the running map, the host index, the pool, the client objects (no
\* connection is attempted) and the persisted state stay as they were.
C2_PortConflictRefused ==
  [][\A r \in Handlers :
       LET b == handlers'[r].name
           h == handlers'[r].host
       IN (/\ Begins(r, "tunnel_up")
           /\ h # ""
           /\ HasTunnel(b)
           /\ b \notin DOMAIN m.tunnels
           /\ \E a \in DOMAIN m.tunnels : m.tunnels[a].port = GetTunnel(b).port)
          => /\ handlers'[r].pc = "done"
             /\ handlers'[r].err.kind = "port-conflict"
             /\ handlers'[r].err.arg \in DOMAIN m.tunnels
             /\ m.tunnels[handlers'[r].err.arg].port = GetTunnel(b).port
             /\ m' = m
             /\ state' = state
             /\ disk' = disk]_vars

\* tunnel_up(b, h) was refused for a port held by a tunnel on the other host,
\* and the pool holds no transport for h
C2_Witness ==
  \E r \in Handlers :
     /\ handlers[r].pc = "done"
     /\ handlers[r].typ = "tunnel_up"
     /\ handlers[r].err.kind = "port-conflict"
     /\ handlers[r].err.arg \in DOMAIN m.tunnels
     /\ handlers[r].name \notin DOMAIN m.tunnels
     /\ m.tunnelHosts[handlers[r].err.arg] # handlers[r].host
     /\ handlers[r].host \notin DOMAIN m.sshClients

\* C3: tunnel_up(n, h) when n already runs on h succeeds and changes nothing:
\* StartTunnel leaves the manager (running map, tunnel object and status,
\* host index, pool) as it is, AddTunnel leaves a state that lists (n, h) as
\* it is, and Save writes the lists of the state and answers success.
C3_Idempotent ==
  [][\A r \in Handlers :
       LET n == handlers'[r].name
           h == handlers'[r].host
       IN /\ (/\ Begins(r, "tunnel_up")
               /\ n \in DOMAIN m.tunnels
               /\ m.tunnelHosts[n] = h)
              => /\ handlers'[r].pc = "add"
                 /\ m' = m
                 /\ state' = state
                 /\ disk' = disk
          /\ (/\ handlers[r].pc = "add"
               /\ handlers'[r].pc = "save"
               /\ handlers[r].typ = "tunnel_up"
               /\ [name |-> n, host |-> h] \in Range(state.ActiveTunnels))
              => state' = state /\ m' = m
          /\ (/\ handlers[r].pc = "save"
               /\ handlers'[r].pc = "done"
               /\ handlers[r].typ = "tunnel_up")
              => /\ disk'.active_tunnels = state.ActiveTunnels
                 /\ handlers'[r].err = Nil
                 /\ m' = m]_vars

\* a second tunnel_up(n, h) has passed StartTunnel: n runs on h and the state
\* and the file list (n, h) from the first request
C3_Witness ==
  \E r \in Handlers :
     LET e == [name |-> handlers[r].name, host |-> handlers[r].host]
     IN /\ handlers[r].pc = "add"
        /\ handlers[r].typ = "tunnel_up"
        /\ e.name \in DOMAIN m.tunnels
        /\ m.tunnelHosts[e.name] = e.host
        /\ m.tunnels[e.name].status = "connected"
        /\ state.ActiveTunnels = <<e>>
        /\ disk.active_tunnels = <<e>>
        /\ nev = 2

\* C4: a tunnel_up(n, h2) that succeeds while n runs on h1 # h2 leaves n
\* running on h2 (connected, transport for h2 in the pool); the transport
\* the pool held for h1 is closed and evicted if no other running tunnel
\* uses h1 and is kept, untouched, otherwise; AddTunnel then leaves exactly
\* one persisted entry for n, with host h2.
C4_HostSwitch ==
  [][\A r \in Handlers :
       LET n == handlers'[r].name
           h2 == handlers'[r].host
       IN /\ (/\ Begins(r, "tunnel_up")
               /\ handlers'[r].pc = "add"
               /\ n \in DOMAIN m.tunnels
               /\ m.tunnelHosts[n] # h2)
              => LET h1 == m.tunnelHosts[n]
                     others == \E o \in DOMAIN m.tunnels \ {n} : m.tunnelHosts[o] = h1
                 IN /\ n \in DOMAIN m'.tunnels
                    /\ m'.tunnelHosts[n] = h2
                    /\ m'.tunnels[n].status = "connected"
                    /\ h2 \in DOMAIN m'.sshClients
                    /\ m'.tunnels[n].client = m'.sshClients[h2]
                    /\ h1 \in DOMAIN m.sshClients =>
                         IF others
                         THEN /\ h1 \in DOMAIN m'.sshClients
                              /\ m'.sshClients[h1] = m.sshClients[h1]
                              /\ m'.clients[m.sshClients[h1]] = m.clients[m.sshClients[h1]]
                         ELSE /\ h1 \notin DOMAIN m'.sshClients
                              /\ Closed(m', m.sshClients[h1])
          /\ (/\ handlers[r].pc = "add"
               /\ handlers'[r].pc = "save"
               /\ handlers[r].typ = "tunnel_up")
              => /\ Cardinality(EntriesOf(state'.ActiveTunnels, n)) = 1
                 /\ \A i \in EntriesOf(state'.ActiveTunnels, n) :
                       state'.ActiveTunnels[i].host = h2]_vars

\* tunnel_up(n, h1) was served and persisted, and a tunnel_up(n, h2) has
\* passed StartTunnel: n runs on h2 and the pool holds h2 only
C4_Witness ==
  \E r \in Handlers :
     LET n == handlers[r].name
         h2 == handlers[r].host
     IN /\ handlers[r].pc = "add"
        /\ handlers[r].typ = "tunnel_up"
        /\ n \in DOMAIN m.tunnels
        /\ m.tunnelHosts[n] = h2
        /\ DOMAIN m.sshClients = {h2}
        /\ Len(state.ActiveTunnels) = 1
        /\ state.ActiveTunnels[1].name = n
        /\ state.ActiveTunnels[1].host # h2
        /\ nev = 2

\* StartGroup or StopGroup is under way in some handler (every other Manager
\* operation holds m.mu from start to end and is one step)
GroupOpInProgress ==
  \E r \in Handlers : handlers[r].pc \in {"gcheck", "gstart", "rollback", "gstop"}

\* C5: whenever no manager operation is in progress, every transport of the
\* pool is under the host of some tunnel of the running map.
C5_PoolUsed ==
  ~GroupOpInProgress =>
     \A h \in DOMAIN m.sshClients :
        \E n \in DOMAIN m.tunnels : m.tunnelHosts[n] = h

\* C6: whenever no manager operation is in progress, every tunnel of the
\* running map has a transport in the pool under its host, and (when the
\* pool has no unused transport) the pool has as many transports as the
\* running tunnels have distinct hosts.
C6_RunningHaveTransport ==
  ~GroupOpInProgress =>
     /\ \A n \in DOMAIN m.tunnels : m.tunnelHosts[n] \in DOMAIN m.sshClients
     /\ (DOMAIN m.sshClients \subseteq Range(m.tunnelHosts))
          => Cardinality(DOMAIN m.sshClients) = Cardinality(Range(m.tunnelHosts))

\* C7: when a tunnel_up(n, h) answers success the file lists (n, h); when a
\* tunnel_down(n) answers success the file has no entry for n.
C7_PersistedAtReturn ==
  \A r \in Handlers :
     (handlers[r].pc = "done" /\ handlers[r].err = Nil) =>
        /\ handlers[r].typ = "tunnel_up" =>
              [name |-> handlers[r].name, host |-> handlers[r].host]
                 \in Range(disk.active_tunnels)
        /\ handlers[r].typ = "tunnel_down" =>
              EntriesOf(disk.active_tunnels, handlers[r].name) = {}

\* the group lists two configured tunnels of one local port: as at most one
\* of them runs (C1), the other is a not-yet-running tunnel in conflict
\* whenever a request for the group arrives
SamePortPair(g) ==
  /\ HasGroup(g)
  /\ \E i, j \in 1..Len(GetTunnelsForGroup(g)) :
        LET n1 == GetTunnelsForGroup(g)[i]
            n2 == GetTunnelsForGroup(g)[j]
        IN /\ n1 # n2
           /\ HasTunnel(n1) /\ HasTunnel(n2)
           /\ GetTunnel(n1).port = GetTunnel(n2).port

\* C8, for a group with two tunnels of one local port: no step of a
\* group_enable(g, h) changes the manager (no tunnel is added to the running
\* map, no transport is created), and its answer is an error.
C8_ConflictStartsNothing ==
  [][\A r \in Handlers :
       (/\ handlers'[r] # handlers[r]
        /\ handlers'[r].typ = "group_enable"
        /\ handlers'[r].host # ""
        /\ SamePortPair(handlers'[r].name))
       => /\ m' = m
          /\ handlers'[r].pc = "done" => handlers'[r].err # Nil]_vars

\* the effect of StopTunnel(n) that found n running
StopPost(n) ==
  /\ DOMAIN m'.tunnels = DOMAIN m.tunnels \ {n}
  /\ DOMAIN m'.tunnelHosts = DOMAIN m.tunnelHosts \ {n}
  /\ \A o \in DOMAIN m'.tunnels :
        m'.tunnels[o] = m.tunnels[o] /\ m'.tunnelHosts[o] = m.tunnelHosts[o]
  /\ DOMAIN m'.sshClients \subseteq DOMAIN m.sshClients
  /\ \A h \in DOMAIN m.sshClients :
        IF \E o \in DOMAIN m'.tunnels : m'.tunnelHosts[o] = h
        THEN /\ h \in DOMAIN m'.sshClients
             /\ m'.sshClients[h] = m.sshClients[h]
             /\ m'.clients[m.sshClients[h]] = m.clients[m.sshClients[h]]
        ELSE /\ h \notin DOMAIN m'.sshClients
             /\ Closed(m', m.sshClients[h])

\* C9: StartGroup starts the tunnels of the list one by one in list order
\* (the k-th iteration touches the k-th name only, after the k-1 names before
\* it); a failing start ends the loop with the error of that start wrapped
\* under the tunnel's name, every name started before is then stopped and
\* is out of the running map after its stop, no further tunnel is started and
\* the persisted state is not touched.
C9_GroupRollback ==
  [][\A r \in Handlers :
       LET h == handlers[r]
           h2 == handlers'[r]
       IN /\ (h.pc = "gstart" /\ h2 # h)
              => LET tunnelNames == GetTunnelsForGroup(h.name)
                     name == tunnelNames[h.idx]
                 IN /\ h.started = SubSeq(tunnelNames, 1, h.idx - 1)
                    /\ state' = state /\ disk' = disk
                    /\ \A o \in Names \ {name} :
                          /\ o \in DOMAIN m'.tunnels <=> o \in DOMAIN m.tunnels
                          /\ o \in DOMAIN m.tunnels => m'.tunnels[o] = m.tunnels[o]
                    /\ \/ /\ h2.pc = "gstart"
                          /\ h2.idx = h.idx + 1
                          /\ h2.started = Append(h.started, name)
                          /\ name \in DOMAIN m'.tunnels
                          /\ m'.tunnelHosts[name] = h.host
                       \/ /\ h2.pc = "add"
                          /\ h.idx = Len(tunnelNames)
                          /\ name \in DOMAIN m'.tunnels
                          /\ m'.tunnelHosts[name] = h.host
                       \/ /\ h2.pc = IF h.started = <<>> THEN "done" ELSE "rollback"
                          /\ \E connOK \in BOOLEAN, listenOK \in BOOLEAN :
                                LET res == StartTunnel(m, name, h.host, connOK, listenOK)
                                IN /\ res.err # Nil
                                   /\ h2.err = Wrap(name, res.err)
                                   /\ m' = Collect(res.m)
                          /\ name \notin DOMAIN m'.tunnels
                          /\ h2.pc = "rollback" => h2.started = h.started /\ h2.idx = 1
          /\ (h.pc = "rollback" /\ h2 # h)
              => /\ h.started[h.idx] \notin DOMAIN m'.tunnels
                 /\ h.started[h.idx] \notin DOMAIN m'.tunnelHosts
                 /\ h.started[h.idx] \in DOMAIN m.tunnels => StopPost(h.started[h.idx])
                 /\ state' = state /\ disk' = disk
                 /\ IF h.idx = Len(h.started)
                    THEN h2 = Done("group_enable", h.name, h.host, h.err)
                    ELSE h2 = [h EXCEPT !.idx = h.idx + 1]]_vars

\* group_enable of a group whose first tunnel started and whose second failed
\* in its own start has answered: the error names the second tunnel, the
\* first is out of the running map again and nothing was persisted
C9_Witness ==
  \E r \in Handlers :
     LET h == handlers[r]
     IN /\ h.pc = "done"
        /\ h.typ = "group_enable"
        /\ h.err.kind = "group-start-failed"
        /\ h.err.arg = GetTunnelsForGroup(h.name)[2]
        /\ h.err.cause.kind = "listen-failed"
        /\ nev = 1
        /\ m.tunnels = EmptyMap
        /\ m.sshClients = EmptyMap
        /\ state = NewState

\* C10: tunnel_down(n) for n not in the running map fails not-running and
\* changes nothing; otherwise n leaves the running map and the host index,
\* every pool transport whose host no remaining tunnel references is closed
\* and evicted, and every other tunnel keeps its entry, its object (status
\* included), its host and the pool transport of its host.  The same holds
\* for the StopTunnel calls of StopGroup.
C10_StopTunnel ==
  [][\A r \in Handlers :
       LET h == handlers[r]
           h2 == handlers'[r]
       IN /\ Begins(r, "tunnel_down")
              => IF h2.name \in DOMAIN m.tunnels
                 THEN h2.pc = "remove" /\ StopPost(h2.name)
                 ELSE /\ h2 = Done("tunnel_down", h2.name, "", Err("not-running", h2.name))
                      /\ m' = m /\ state' = state /\ disk' = disk
          /\ ((Begins(r, "group_disable") \/ (h.pc = "gstop" /\ h2 # h))
               /\ HasGroup(h2.name))
              => LET n == GetTunnelsForGroup(h2.name)[IF h.pc = "gstop" THEN h.idx ELSE 1]
                 IN IF n \in DOMAIN m.tunnels THEN StopPost(n) ELSE m' = m]_vars

\* tunnel_down(n) has passed StopTunnel for a tunnel a group had started on
\* host h together with another one: the other one still runs on h and the
\* pool still holds the transport of h, open
C10_Witness ==
  \E r \in Handlers, o \in DOMAIN m.tunnels :
     LET h == handlers[r]
     IN /\ h.pc = "remove"
        /\ h.typ = "tunnel_down"
        /\ Len(state.ActiveGroups) = 1
        /\ \E i \in 1..Len(GetTunnelsForGroup(state.ActiveGroups[1].name)) :
              GetTunnelsForGroup(state.ActiveGroups[1].name)[i] = h.name
        /\ m.tunnelHosts[o] = state.ActiveGroups[1].host
        /\ m.tunnels[o].status = "connected"
        /\ DOMAIN m.sshClients = {m.tunnelHosts[o]}
        /\ m.clients[m.sshClients[m.tunnelHosts[o]]].open
        /\ nev = 2

\* C11: the step of shutdown that runs Manager.StopAll leaves the running map,
\* the tunnel-to-host index and the pool empty and every transport the pool
\* held closed, whatever tunnels, statuses and transports there were before.
C11_StopAllEmpties ==
  [][(run.pc = "stopall" /\ run'.pc = "monstop")
       => /\ m'.tunnels = EmptyMap
          /\ m'.tunnelHosts = EmptyMap
          /\ m'.sshClients = EmptyMap
          /\ \A id \in Range(m.sshClients) : Closed(m', id)]_vars

\* StopAll has run in a daemon that had replayed a tunnel, lost its transport
\* and started a reconnection task that is still alive
C11_Witness ==
  /\ run.pc = "exited"
  /\ m.tunnels = EmptyMap
  /\ m.sshClients = EmptyMap
  /\ disk.active_tunnels # <<>>
  /\ \E n \in Names : tasks[n] > 0

\* the step is a disconnect signalled by a transport of host h: a keepalive
\* goroutine ends, or a health check closes the pooled client, in a step
\* that is neither the start of a request nor a change of the network status
Disconnects(h) ==
  /\ nev' = nev + 1
  /\ handlers' = handlers
  /\ netStatus' = netStatus
  /\ \E id \in DOMAIN m.clients :
        /\ m.clients[id].host = h
        /\ m.clients[id].ka
        /\ id \in DOMAIN m'.clients => ~m'.clients[id].ka

\* C12: when a transport of host h signals disconnection, every tunnel of
\* the running map whose host is h gets status error with the loss as its
\* last error (nothing else of it changes but the statuses remembered), the pool entry of h is closed
\* and evicted, no tunnel leaves the running map or the host index, and the
\* tunnels and pooled transports of the other hosts stay as they were.
C12_Disconnect ==
  [][\A h \in Hosts :
       Disconnects(h)
         => /\ DOMAIN m'.tunnels = DOMAIN m.tunnels
            /\ m'.tunnelHosts = m.tunnelHosts
            /\ \A n \in DOMAIN m.tunnels :
                  IF m.tunnelHosts[n] = h
                  THEN m'.tunnels[n] = [m.tunnels[n] EXCEPT !.status = "error",
                                                           !.lastError = "ssh-lost",
                                                           !.trail = m'.tunnels[n].trail]
                  ELSE m'.tunnels[n] = m.tunnels[n]
            /\ h \notin DOMAIN m'.sshClients
            /\ h \in DOMAIN m.sshClients => Closed(m', m.sshClients[h])
            /\ \A o \in DOMAIN m.sshClients \ {h} :
                  /\ o \in DOMAIN m'.sshClients
                  /\ m'.sshClients[o] = m.sshClients[o]
                  /\ m'.clients[m.sshClients[o]] = m.clients[m.sshClients[o]]]_vars

\* the transport of one host was lost while tunnels ran on two hosts: the
\* tunnel of the lost host is in error and its pool entry is gone, the other
\* tunnel is connected on its pooled transport
C12_Witness ==
  \E n1 \in DOMAIN m.tunnels, n2 \in DOMAIN m.tunnels :
     /\ m.tunnelHosts[n1] # m.tunnelHosts[n2]
     /\ m.tunnels[n1].status = "error"
     /\ m.tunnels[n1].lastError = "ssh-lost"
     /\ m.tunnelHosts[n1] \notin DOMAIN m.sshClients
     /\ m.tunnels[n2].status = "connected"
     /\ m.tunnelHosts[n2] \in DOMAIN m.sshClients
     /\ IsConnected(m.clients, m.sshClients[m.tunnelHosts[n2]])

\* the transport of tunnel n was lost: n is in the running map in status
\* error with the loss as its last error
Lost(n) ==
  /\ n \in DOMAIN m.tunnels
  /\ m.tunnels[n].status = "error"
  /\ m.tunnels[n].lastError = "ssh-lost"

\* C13: once the transport of a running tunnel n has signalled disconnection,
\* and for as long as the network status stays what it is and n is neither
\* stopped nor restarted, a reconnection task for n gets started.
C13_DisconnectStartsTask ==
  \A n \in Names, s \in {"unknown", "available", "unavailable"} :
     (Lost(n) /\ netStatus = s)
        ~> (tasks[n] > 0 \/ ~Lost(n) \/ netStatus # s)

\* tunnel n is in the running map in status error
InError(n) == n \in DOMAIN m.tunnels /\ m.tunnels[n].status = "error"

C15_CountGrowsByOne ==
  [][\A n \in Names :
       (tasks'[n] < tasks[n] /\ n \in DOMAIN m.tunnels /\ n \in DOMAIN m'.tunnels)
          => m'.tunnels[n].reconnectCount = m.tunnels[n].reconnectCount + 1]_vars

\* C16: WaitForNetwork returns at once when the status is available, and a
\* transition to available that takes place after a caller has entered
\* WaitForNetwork (before or after it has registered, alone or with other
\* callers) makes that call return.
C16_WaiterWakes ==
  /\ [][\A w \in Waiters :
           (mon.waiters[w].pc = "out" /\ mon'.waiters[w].pc # "out"
              /\ netStatus = "available") => mon'.waiters[w].pc = "returned"]_vars
  /\ \A w \in Waiters :
        mon.waiters[w].seen ~> (mon.waiters[w].pc = "returned")

\* C17: when group_disable(g) for a configured group g has produced its
\* response, neither the state nor the state file holds an entry for g.
C17_DisabledGroupForgotten ==
  \A r \in Handlers :
     (/\ handlers[r].pc = "done"
      /\ handlers[r].typ = "group_disable"
      /\ HasGroup(handlers[r].name))
       => /\ EntriesOf(state.ActiveGroups, handlers[r].name) = {}
          /\ EntriesOf(disk.active_groups, handlers[r].name) = {}

\* the open ssh.Client objects of host h in manager M
Sessions(M, h) == {id \in DOMAIN M.clients : M.clients[id].host = h /\ M.clients[id].open}

\* C18: when ReconnectTunnel(n2) succeeds while another tunnel n1 of the same
\* host h is already bound to the connected transport the pool holds for h
\* (the one the reconnection of n1 created), n2 is bound to that same
\* transport, the pool entry stays, and one session to h is open.
C18_ReconnectShares ==
  [][\A n1 \in Names, n2 \in Names :
       (/\ n1 # n2
        /\ tasks'[n2] < tasks[n2]
        /\ n1 \in DOMAIN m.tunnels
        /\ n2 \in DOMAIN m.tunnels
        /\ m.tunnelHosts[n1] = m.tunnelHosts[n2]
        /\ m.tunnelHosts[n1] \in DOMAIN m.sshClients
        /\ m.tunnels[n1].client = m.sshClients[m.tunnelHosts[n1]]
        /\ m.tunnels[n1].status = "connected"
        /\ m.tunnels[n1].reconnectCount > 0
        /\ IsConnected(m.clients, m.tunnels[n1].client))
         => LET h == m.tunnelHosts[n1]
            IN /\ m'.sshClients[h] = m.sshClients[h]
               /\ m'.tunnels[n2].client = m.sshClients[h]
               /\ Cardinality(Sessions(m', h)) = 1]_vars

C20_HostRequired ==
  [][\A r \in Handlers :
       ((Begins(r, "tunnel_up") \/ Begins(r, "group_enable")) /\ handlers'[r].host = "")
         => /\ handlers'[r].pc = "done"
            /\ handlers'[r].err = Err("host-required", "")
            /\ m' = m
            /\ state' = state
            /\ disk' = disk]_vars

\* a group_enable without host was refused while a tunnel was running and
\* persisted
C20_Witness ==
  \E r \in Handlers :
     /\ handlers[r].pc = "done"
     /\ handlers[r].typ = "group_enable"
     /\ handlers[r].host = ""
     /\ HasGroup(handlers[r].name)
     /\ handlers[r].err = Err("host-required", "")
     /\ m.tunnels # EmptyMap
     /\ state.ActiveTunnels # <<>>
     /\ disk.active_tunnels # <<>>

\* a goroutine of connection c of the tunnel is alive: its handler or a pump
ConnAlive(c) == tun.conns[c].pc \in {"dial", "pumping"}

\* C21: Stop returns only when the accept loop and every connection handler
\* with both its pumps have ended, and leaves the status stopped, whatever
\* the status was (connected, error after a failed start, stopped after an
\* earlier Stop); when StopTunnel made the call the tunnel then leaves the
\* running map and tunnel_down answers success, so a success of tunnel_down
\* means no pump is alive and the tunnel is not listed; and a Stop that has
\* closed the listener and has no pump left to wait for returns.
C21_StopDrains ==
  /\ [][(tun.stop = "wait" /\ tun'.stop = "out") =>
           /\ tun'.status = "stopped"
           /\ tun.accept # "running"
           /\ \A c \in ConnIds :
                 ~ConnAlive(c) /\ ~tun.conns[c].up /\ ~tun.conns[c].down
           /\ tun.caller = "StopTunnel" => (~tun'.inMap /\ tun'.resp = "success")]_vars
  /\ [][(tun.resp # "success" /\ tun'.resp = "success") =>
           /\ ~tun'.inMap
           /\ \A c \in ConnIds : ~tun'.conns[c].up /\ ~tun'.conns[c].down]_vars
  /\ (tun.stop = "wait" /\ \A c \in ConnIds : ~tun.conns[c].up /\ ~tun.conns[c].down
                                               /\ tun.conns[c].pc # "dial")
        ~> (tun.stop = "out" /\ tun.status = "stopped")

\* tunnel_down has answered success for a tunnel that had served two
\* connections, and a second Stop on the stopped tunnel has returned
C21_Witness ==
  /\ tun.stop = "out"
  /\ tun.stops = 2
  /\ tun.status = "stopped"
  /\ tun.resp = "success"
  /\ tun.caller = "Stop"
  /\ \A c \in ConnIds : tun.conns[c].pc = "done"

\* the floor of a Backoff made with (1s, 10s, 2.0) before its call number n + 1
Floor1s10s(n) == IF n >= 4 THEN 10 * Second ELSE Second * 2^n

\* C22: a call of Next returns a delay d with c <= d <= c + c/4 for the floor
\* c before the call and sets the floor to min(max, c * multiplier); a
\* Backoff made with (1s, 10s, 2.0) has the floors 1s, 2s, 4s, 8s, 10s, 10s,
\* ... before its successive calls; Reset sets the floor to initial.
C22_NextAndReset ==
  /\ [][bo'.op = "next" /\ bo'.calls = bo.calls + 1 =>
           /\ bo.current <= bo'.last
           /\ 4 * bo'.last <= 5 * bo.current
           /\ LET next == Times(bo.current, bo.multiplier)
              IN bo'.current = IF bo.max < next THEN bo.max ELSE next]_vars
  /\ [](bo.op # "none" /\ bo.initial = Second /\ bo.max = 10 * Second /\ bo.multiplier = 4
          => bo.current = Floor1s10s(bo.calls))
  /\ [][bo'.resets = bo.resets + 1 => bo'.current = bo.initial]_vars

\* the fifth call of Next on a Backoff made with (1s, 10s, 2.0) has returned
\* a delay above the floor 10s, after a Reset and five calls before it
C22_Witness ==
  /\ bo.initial = Second /\ bo.max = 10 * Second /\ bo.multiplier = 4
  /\ bo.resets = 1
  /\ bo.calls = 5
  /\ bo.last > 10 * Second
  /\ bo.current = 10 * Second

\* C23: with a multiplier above 1, over calls of Next without Reset the floor
\* does not decrease, never exceeds max, and stays at max once it is there,
\* for every initial and max the constructor accepts.
C23_FloorMonotone ==
  /\ [][bo.multiplier > 2 /\ bo'.op = "next" /\ bo'.calls = bo.calls + 1 =>
           /\ bo'.current >= bo.current
           /\ bo.current = bo.max => bo'.current = bo.max]_vars
  /\ [](bo.op # "none" /\ bo.multiplier > 2 => bo.current <= bo.max)

\* validation has reported an error that names the field of the entry
Rejected(field) ==
  \E i \in DOMAIN vt.errs : vt.errs[i].Field = <<"tunnels", vt.name, field>>

\* C24: validation accepts the local port and the remote port p of a tunnel
\* exactly when 1 <= p <= 65535; a port outside (0, 65536, a negative value)
\* produces an error that names the field of that port.
C24_PortRange ==
  vt.done =>
    /\ Rejected("local_port") <=> ~(1 <= vt.local_port /\ vt.local_port <= 65535)
    /\ Rejected("remote_port") <=> ~(1 <= vt.remote_port /\ vt.remote_port <= 65535)
    /\ (vt.local_port \in {1, 65535} /\ vt.remote_port \in {1, 65535} /\ vt.type = "local")
         => vt.errs = <<>>

\* an entry with local port 65535 and remote port 65536 has been validated:
\* one error, naming remote_port
C24_Witness ==
  /\ vt.done
  /\ vt.type = "remote"
  /\ vt.local_port = 65535
  /\ vt.remote_port = 65536
  /\ Len(vt.errs) = 1
  /\ Rejected("remote_port")

\* C25: wherever a reconnection task calls ReconnectTunnel on a tunnel of the
\* running map and the call fails, because the transport cannot be brought
\* up or because the rebuilt tunnel fails to start, the tunnel is in the map
\* afterwards, bound to the same host, in status error (the status that a
\* later change to available picks up), with the failure as its last error.
C25_FailedReconnectKeeps ==
  \A n \in Names, connOK \in BOOLEAN, listenOK \in BOOLEAN :
    LET res == ReconnectTunnel(m, n, connOK, listenOK)
    IN (/\ tasks[n] > 0
        /\ netStatus = "available"
        /\ n \in DOMAIN m.tunnels
        /\ n \in DOMAIN m.tunnelHosts
        /\ res.err # Nil)
       => /\ n \in DOMAIN res.m.tunnels
          /\ n \in DOMAIN res.m.tunnelHosts
          /\ res.m.tunnelHosts[n] = m.tunnelHosts[n]
          /\ res.m.tunnels[n].status = "error"
          /\ res.m.tunnels[n].lastError =
               (IF connOK THEN "listen-failed" ELSE "connect-failed")

\* a reconnection of a tunnel has failed at the transport and its task is
\* still there: the tunnel is in the map in status error
C25_Witness ==
  \E n \in DOMAIN m.tunnels :
    /\ tasks[n] > 0
    /\ m.tunnels[n].status = "error"
    /\ m.tunnels[n].lastError = "connect-failed"
    /\ n \in DOMAIN m.tunnelHosts

\* the edges of the status machine
Edges ==
  {<<"stopped", "connecting">>, <<"connecting", "connected">>, <<"connecting", "error">>,
   <<"connected", "error">>, <<"error", "reconnecting">>, <<"reconnecting", "connected">>,
   <<"reconnecting", "error">>}
  \cup {<<from, "stopped">> : from \in {"connecting", "connected", "error", "reconnecting"}}

\* C26: every change of the status of a tunnel is an edge of the status
\* machine: reconnecting is entered only from error and left only to
\* connected or error, stopped is left only to connecting.
C26_StatusMachine ==
  \A n \in DOMAIN m.tunnels :
    LET trail == m.tunnels[n].trail
    IN \A i \in 1..(TrailLen - 1) :
         trail[i] # "" => <<trail[i], trail[i + 1]>> \in Edges

\* C27: in the lifetime of one ssh.Client, from its Connect to its Close, the
\* disconnect callback is called at most once, whatever the interleaving of
\* failing keepalives and failing or timed out health checks of concurrent
\* status requests.
C27_CallbackOnce == cli.calls <= 1

\* the client id is not the entry of the pool for its host
Stale(id) ==
  \/ m.clients[id].host \notin DOMAIN m.sshClients
  \/ m.sshClients[m.clients[id].host] # id

\* C28: wherever a client that is no longer the entry of the pool for its
\* host still has its keepalive goroutine, the notification that goroutine
\* gives on a failure changes the status of no tunnel, and it neither closes
\* nor evicts the client that the pool holds for the host.
C28_StaleNotification ==
  \A id \in DOMAIN m.clients :
    (m.clients[id].ka /\ Stale(id)) =>
      LET after == onSSHDisconnect([m EXCEPT !.clients[id].ka = FALSE], m.clients[id].host)
      IN /\ \A n \in DOMAIN m.tunnels : after.tunnels[n].status = m.tunnels[n].status
         /\ after.sshClients = m.sshClients
         /\ \A h \in DOMAIN m.sshClients :
              after.clients[m.sshClients[h]].open = m.clients[m.sshClients[h]].open

\* the step is a round of a reconnection task of n that rebuilds the tunnel:
\* no request is received, no handler moves, no event happens, and the
\* object of n in the running map is replaced or changed
Rebuilds(n) ==
  /\ tasks[n] > 0
  /\ nev' = nev
  /\ handlers' = handlers
  /\ n \in DOMAIN m.tunnels
  /\ n \in DOMAIN m'.tunnels
  /\ m'.tunnels[n] # m.tunnels[n]

\* C29: a tunnel has at most one reconnection task at any time, and a task
\* runs ReconnectTunnel only on a tunnel in status error or reconnecting: no
\* task stops and rebuilds a tunnel that is connected, also when the network
\* becomes available several times while the tunnel is being recovered.
C29_OneTaskOnBroken ==
  /\ [](\A n \in Names : tasks[n] <= 1)
  /\ [][\A n \in Names :
          Rebuilds(n) => m.tunnels[n].status \in {"error", "reconnecting"}]_vars

\* tunnel_down of n, or group_disable of a group of n, answers success and
\* n is not in the running map
Removed(n) ==
  /\ n \notin DOMAIN m.tunnels
  /\ \E r \in Handlers :
        /\ handlers[r].pc = "done"
        /\ handlers[r].err = Nil
        /\ \/ handlers[r].typ = "tunnel_down" /\ handlers[r].name = n
           \/ /\ handlers[r].typ = "group_disable"
              /\ HasGroup(handlers[r].name)
              /\ \E i \in DOMAIN GetTunnelsForGroup(handlers[r].name) :
                    GetTunnelsForGroup(handlers[r].name)[i] = n

\* C30: the reconnection task of a tunnel (here a, the tunnel that has lost
\* its transport) ends once the tunnel has been removed from the running map
\* by tunnel_down or group_disable: it does not go on retrying a tunnel that
\* is not there.
C30_TaskEnds == (tasks["a"] > 0 /\ Removed("a")) ~> (tasks["a"] = 0)

\* C31: a tunnel_up(n, h2) that answers an error, whatever the cause, leaves
\* the running set as it was: the running map and the host index keep their
\* names, and a tunnel n that ran on a host h1 before the request still runs
\* on h1 with a transport for h1 in the pool, so that the entry (n, h1) of
\* the state still describes a running tunnel; the state and its file are
\* not written.
C31_FailedUpKeeps ==
  [][\A r \in Handlers :
       (/\ Begins(r, "tunnel_up")
        /\ handlers'[r].pc = "done"
        /\ handlers'[r].err # Nil)
       => /\ DOMAIN m'.tunnels = DOMAIN m.tunnels
          /\ m'.tunnelHosts = m.tunnelHosts
          /\ \A n \in DOMAIN m.tunnels :
                m.tunnelHosts[n] \in DOMAIN m.sshClients
                  => m.tunnelHosts[n] \in DOMAIN m'.sshClients
          /\ state' = state
          /\ disk' = disk]_vars

\* Manager.checkGroupPortConflicts run to its end on a manager nobody else
\* touches: the error of the first failing iteration, Nil when none fails
RECURSIVE checkGroupAll(_, _, _, _)
checkGroupAll(tn, tunnelNames, i, newPorts) ==
  IF i > Len(tunnelNames) THEN Nil
  ELSE LET res == checkGroupIter(tn, tunnelNames[i], newPorts)
       IN IF res.err # Nil THEN res.err
          ELSE checkGroupAll(tn, tunnelNames, i + 1, res.newPorts)

\* the inner loop of Manager.StartGroup: StopTunnel of every started name,
\* the errors of StopTunnel dropped
RECURSIVE StopStarted(_, _)
StopStarted(M, started) ==
  IF started = <<>> THEN M
  ELSE StopStarted(Collect(StopTunnel(M, Head(started)).m), Tail(started))

\* the loop of Manager.StartGroup from its i-th name on, on a manager nobody
\* else touches; oks[k] holds the outcomes of the connection and of the
\* listener of the k-th StartTunnel
RECURSIVE StartGroupLoop(_, _, _, _, _, _)
StartGroupLoop(M, tunnelNames, host, oks, i, started) ==
  IF i > Len(tunnelNames) THEN [m |-> M, err |-> Nil]
  ELSE LET res == StartTunnel(M, tunnelNames[i], host, oks[i][1], oks[i][2])
       IN IF res.err # Nil
          THEN [m |-> StopStarted(Collect(res.m), started),
                err |-> Wrap(tunnelNames[i], res.err)]
          ELSE StartGroupLoop(Collect(res.m), tunnelNames, host, oks, i + 1,
                              Append(started, tunnelNames[i]))

\* Manager.StartGroup as one call on a manager nobody else touches
StartGroupCall(M, g, host, oks) ==
  IF ~HasGroup(g) THEN [m |-> M, err |-> Err("unknown-group", g)]
  ELSE IF checkGroupAll(M.tunnels, GetTunnelsForGroup(g), 1, EmptyMap) # Nil
  THEN [m |-> M, err |-> checkGroupAll(M.tunnels, GetTunnelsForGroup(g), 1, EmptyMap)]
  ELSE StartGroupLoop(M, GetTunnelsForGroup(g), host, oks, 1, <<>>)

\* the outcomes of the two I/O steps of the StartTunnel calls of one group
Outcomes(g) == [1..Len(GetTunnelsForGroup(g)) -> BOOLEAN \X BOOLEAN]

\* C32: a start_group that fails stops only tunnels this call itself
\* started: in every state the daemon reaches with no group operation in
\* progress, a StartGroup of any group on any host that returns an error
\* leaves every tunnel that was running before the call in the running map
\* and on the host it ran on, whether that host is the requested one or
\* another.
C32_RollbackOnlyOwn ==
  GroupOpInProgress
  \/ \A g \in GroupNames, host \in Hosts :
       \A oks \in Outcomes(g) :
          LET res == StartGroupCall(m, g, host, oks)
          IN res.err # Nil
             => \A n \in DOMAIN m.tunnels :
                   /\ n \in DOMAIN res.m.tunnels
                   /\ res.m.tunnelHosts[n] = m.tunnelHosts[n]

\* the first loop of Daemon.restoreState on manager M, every connection and
\* every listener succeeding: StartGroup of each persisted group in the
\* order of the list, an error logged and dropped
RECURSIVE replayGroups(_, _)
replayGroups(M, gs) ==
  IF gs = <<>> THEN M
  ELSE replayGroups(
         Collect(StartGroupCall(M, Head(gs).name, Head(gs).host,
                                [k \in 1..MaxClients |-> <<TRUE, TRUE>>]).m),
         Tail(gs))

\* the second loop of Daemon.restoreState: StartTunnel of each persisted
\* tunnel, an error logged and dropped
RECURSIVE replayTunnels(_, _)
replayTunnels(M, ts) ==
  IF ts = <<>> THEN M
  ELSE replayTunnels(
         Collect(StartTunnel(M, Head(ts).name, Head(ts).host, TRUE, TRUE).m),
         Tail(ts))

\* the manager after Daemon.restoreState of a fresh daemon that finds the
\* state file `file`
Replay(file) ==
  replayTunnels(replayGroups(NewManager, Load(NewState, file).ActiveGroups),
                Load(NewState, file).ActiveTunnels)

\* C33: a tunnel taken down stays down across a restart: when tunnel_down(n)
\* answers success with no other request in progress and no entry of n
\* among the tunnels of the state, the replay of the state file as it then
\* is does not start n, neither from an entry of its own nor as a member of
\* a persisted group.
C33_DownStaysDown ==
  [][\A r \in Handlers :
       (/\ handlers[r].typ = "tunnel_down"
        /\ handlers[r].pc = "save"
        /\ handlers'[r].pc = "done"
        /\ handlers'[r].err = Nil
        /\ EntriesOf(state.ActiveTunnels, handlers[r].name) = {}
        /\ \A q \in Handlers \ {r} : handlers[q].pc \in {"idle", "done"})
       => handlers[r].name \notin DOMAIN Replay(disk').tunnels]_vars

\* C34: the entries the previous run left in the state file all reach the
\* startup replay: as long as Daemon.Run has not loaded the state no step,
\* and in particular no control request served meanwhile, writes the file,
\* and the load hands the replay the groups and the tunnels of the file.
C34_ReplaySeesFile ==
  [][run.pc = "load"
       => /\ disk' = disk
          /\ run'.pc # "load"
               => /\ state'.ActiveGroups = disk.active_groups
                  /\ state'.ActiveTunnels = disk.active_tunnels
                  /\ run'.todo = disk.active_groups]_vars

\* C35: no SSH session leaks: every client the manager has connected is
\* either the pool's client of its host or closed with its keepalive task
\* ended, whichever way it left the pool (stop of the last tunnel, host
\* switch, disconnect, reconnect, stop_all), and once stop_all has run no
\* client is open and no keepalive task runs.
C35_NoSessionLeak ==
  /\ \A id \in DOMAIN m.clients :
        id \in Range(m.sshClients) \/ (~m.clients[id].open /\ ~m.clients[id].ka)
  /\ run.pc \in {"monstop", "rmpid", "exited"}
       => \A id \in DOMAIN m.clients : ~m.clients[id].open /\ ~m.clients[id].ka

\* C36: a stop always returns: once Stop has cancelled the context and
\* closed the listener, the pumps of the connections in flight end without
\* any help of the peers (no peer closes its side, a step the tunnel cannot
\* force), the wait for the handlers ends and Stop returns with the tunnel
\* stopped.
C36_StopReturns ==
  (tun.stop = "wait") ~> (tun.stop = "out" /\ tun.status = "stopped")

\* Manager.StopTunnel holds m.mu (Lock at its entry, the deferred Unlock at
\* its return) for as long as the Stop it calls is under way
muLocked == tun.stop # "out" /\ tun.caller = "StopTunnel"

\* C37: the manager lock is not held across I/O: while a stop waits for the
\* accept loop and the pumps of the connections of its tunnel, m.mu is free,
\* so that the read-only accessors and the disconnect handler, which take
\* m.mu, are not blocked for as long as the wait lasts.
C37_NoLockAcrossIO ==
  (tun.stop = "wait" /\ ~WaitGroupZero(tun)) => ~muLocked

\* C38: check_health does not deadlock on the manager lock: it holds the
\* read lock for the snapshot of the pool only, so none of its checks runs
\* under it; a check that fails calls the disconnect handler, which gets
\* the lock and completes, and every check_health that has begun returns.
C38_CheckHealthReturns ==
  /\ [](\A r \in Handlers :
          cli.checks[r] \in {"snapshot", "sending", "callback", "done"} => r \notin cli.mu)
  /\ \A r \in Handlers :
        /\ (cli.checks[r] = "callback") ~> (cli.checks[r] = "done" /\ cli.mu = {})
        /\ (cli.checks[r] = "rlocked") ~> (cli.checks[r] = "done")

\* a health check has failed on a client whose keepalive never failed: the
\* callback ran once, the client is closed and out of the pool, the check
\* has returned and nobody holds the lock
C38_Witness ==
  /\ cli.checks["r1"] = "done"
  /\ cli.ka = "idle"
  /\ cli.calls = 1
  /\ ~cli.open
  /\ ~cli.pooled
  /\ cli.mu = {}

\* the steps of Daemon.Run from the signal on, in the order of the code
ShutdownOrder ==
  {<<"serving", "shutsave">>, <<"shutsave", "stopall">>, <<"stopall", "monstop">>,
   <<"monstop", "rmpid">>, <<"rmpid", "exited">>}

\* C39: shutdown cancels the root context, writes the state, stops all
\* tunnels, stops the monitor and removes the PID record, in this order and
\* each once.  The write stores the in-memory state, which is what the file
\* holds already when no request is about to save; stopping the tunnels
\* empties the running map and takes no entry out of the state or of the
\* file, and no later step of the shutdown writes them, so that the file
\* the process leaves holds the entries it held before the shutdown.  The
\* next start loads that file and replays its entries.
C39_ShutdownKeepsState ==
  [][/\ (run'.pc # run.pc /\ (Cancelled \/ Cancelled'))
          => /\ <<run.pc, run'.pc>> \in ShutdownOrder
             /\ handlers' = handlers
     /\ (run.pc = "serving" /\ run'.pc = "shutsave")
          => (~Cancelled /\ Cancelled' /\ m' = m /\ state' = state /\ disk' = disk)
     /\ (run.pc = "shutsave" /\ run'.pc = "stopall")
          => /\ disk' = Save(state)
             /\ state' = state /\ m' = m
             /\ (\A r \in Handlers : handlers[r].pc # "save") => disk' = disk
     /\ (run.pc = "stopall" /\ run'.pc = "monstop")
          => /\ m'.tunnels = EmptyMap
             /\ state' = state
             /\ disk' = disk
     /\ (run.pc \in {"monstop", "rmpid"} /\ run'.pc # run.pc)
          => (m' = m /\ state' = state /\ disk' = disk)
     /\ (run.pc = "load" /\ run'.pc # "load")
          => /\ run'.todo = disk.active_groups
             /\ state'.ActiveTunnels = disk.active_tunnels]_vars

\* the daemon has replayed a file of two entries, has run with tunnels up
\* and has shut down: the process has ended, nothing runs, and the file
\* still holds the two entries, which are those of the state
C39_Witness ==
  /\ run.pc = "exited"
  /\ Entries(disk) = 2
  /\ disk = Save(state)
  /\ m.tunnels = EmptyMap
  /\ nev = 2

\* C40: whenever no manager operation is in progress, every tunnel of the
\* running map has status connected or error (none is stopped, connecting
\* or reconnecting), and the host index has exactly the names of the
\* running map.
C40_RestingStatus ==
  ~GroupOpInProgress
    => /\ \A n \in DOMAIN m.tunnels : m.tunnels[n].status \in {"connected", "error"}
       /\ DOMAIN m.tunnelHosts = DOMAIN m.tunnels

\* a tunnel whose transport was lost and whose reconnection failed rests in
\* the running map with status error, beside a connected one
C40_Witness ==
  /\ ~GroupOpInProgress
  /\ \E n \in DOMAIN m.tunnels :
        /\ m.tunnels[n].status = "error"
        /\ m.tunnels[n].reconnectCount > 0
  /\ \E n \in DOMAIN m.tunnels : m.tunnels[n].status = "connected"

====
